---- MODULE Spec2Model ----
(***************************************************************************)
(* Server-side rendering core of the reactive runtime: the server memo     *)
(* (packages/solid/src/server/signals.ts) and the server Loading boundary  *)
(* (packages/solid/src/server/hydration.ts), driven by the template        *)
(* resolver that the server tests inline (test/server/signals.spec.ts).    *)
(*                                                                         *)
(* One Loading boundary renders a children program: the component body     *)
(* creates memos, may read one of them directly (throw path) and returns a *)
(* template whose holes read memos.  Deferred promises are settled by the  *)
(* environment; promise reactions run from a microtask queue in            *)
(* registration order.                                                     *)
(*                                                                         *)
(* SpecMemo and SpecProjection run a server memo and a server projection   *)
(* over an async generator, with the consumer of the tapped iterable they  *)
(* serialize and with server reads.  SpecPatch mutates a store through the *)
(* deep patch proxy and replays the recorded patches with the client's     *)
(* patch interpreter.  SpecTrip creates a memo or a function-form signal   *)
(* on the server and hydrates it on the client from what was serialized.   *)
(***************************************************************************)
EXTENDS Integers, Sequences, FiniteSets, TLC

VARIABLES
  prog,            \* the children program (fixed after Init)
  ctxAsync,        \* ctx.async
  hasHandler,      \* an ErrorContext handler is reachable from the boundary owner
  dState,          \* settlement state of each deferred promise
  reactions,       \* reactions registered on each pending deferred
  microtasks,      \* the microtask queue
  memos,           \* every ServerComputation created so far, all attempts
  childCount,      \* o._childCount of the boundary owner
  attempt,         \* number of runInitially() calls so far
  phase,           \* position of Loading / of its async IIFE
  runPromise,      \* hydration.ts `runPromise`
  ret,             \* hydration.ts `ret` ({t,h,p} or undefined)
  awaitLeft,       \* Promise.all: elements not yet fulfilled
  awaitResult,     \* Promise.all: outcome
  ctxSerialize,    \* what ctx.serialize is bound to
  serializeBuffer, \* hydration.ts `serializeBuffer`
  realLog,         \* calls that reached origSerialize
  committed,       \* history: the buffered calls the boundary's flushes handed to origSerialize
  transport,       \* calls that reached the serializer the transport installed on the context
  outerBuffer,     \* serializeBuffer of the enclosing boundary
  outerBound,      \* ctx.serialize, outside this boundary's attempts, is the enclosing boundary's buffering closure
  registered,      \* number of registerFragment(id) calls
  passes,          \* history: hole re-resolution passes made, up to MaxPasses
  nested,          \* the boundary is the children of an enclosing Loading boundary
  outer,           \* the enclosing boundary: how its call ended, its registerFragment calls, its return value
  doneLog,         \* calls of the fragment callback, in order
  fragment,        \* the transport's view of the fragment
  handlerLog,      \* errors passed to the ErrorContext handler
  thrown,          \* error that propagated out of Loading()
  rejectedAwaited, \* history: deferreds that rejected while Promise.all awaited them
  lateErrors,      \* history: errors the children threw after registerFragment
  currentBoundaryId, \* ctx._currentBoundaryId
  markerLog,       \* history: the marker before, during and after each run of the children's code
  gen,             \* the async generator a compute / projection function returns
  created,         \* createMemo / createProjection has run
  comp,            \* the memo's ServerComputation: value and error
  state,           \* the projection's store
  patches,         \* the projection's patch list
  pending,         \* createPendingProxy's `pending`
  iterCalls,       \* iter.next() calls made so far
  iterSettled,     \* iter.next() promises settled so far
  nextThens,       \* reactions registered on each pending iter.next() promise
  servedFirst,     \* the tapped wrapper's `servedFirst`
  jobs,            \* reactions of settled iter.next() promises, queued to run
  consumed,        \* results the consumer of the tapped iterable has received
  streamEnded,     \* the consumer saw done or a rejection
  firstValue,      \* history: what the first yield stored
  lastRead,        \* history: the last server read and whether it followed the first yield
  delivered,       \* history: what each next() of the tapped iterable settled with
  target,          \* createDeepProxy's target: the store's object graph
  emitted,         \* createDeepProxy's `patches`: the patch operations recorded
  base,            \* history: the object graph before the first draft mutation
  spliced,         \* history: the last splice call on the proxied array and its patches
  trip,            \* the primitive whose value travels from server to client
  server,          \* the primitive's ServerComputation and what it serialized
  arrived,         \* what sharedConfig.load(id) held when the client hydrated
  client,          \* the hydrated primitive on the client
  sharedContext,   \* sharedConfig.context: the request whose render runs now
  noHydrate,       \* ctx.noHydrate of each request's HydrationContext
  planned,         \* how many primitives the render creates under its owner
  reentry,         \* a request's Loading boundary, its awaits and what its children created
  owned,           \* _childCount of the owner the primitives are created under
  prims,           \* the primitives created under that owner, in order
  serialized,      \* the ctx.serialize calls made, in order
  xtasks,          \* promise reactions queued to run
  xCall,           \* history: the last read of a primitive or isPending call
  caught,          \* history: the errors the error boundaries caught
  hydrating,       \* _hydratingValue behind sharedConfig.hydrating
  walking,         \* history: a top-level hydration walk is in progress
  doneValue,       \* _doneValue behind sharedConfig.done
  doneWasSet,      \* history: sharedConfig.done has been set to true
  hydrationDone,   \* _hydrationDone
  pendingBoundaries, \* _pendingBoundaries
  endCallbacks,    \* _hydrationEndCallbacks
  cmicro,          \* callbacks handed to queueMicrotask
  cbs,             \* history: each onHydrationEnd callback, its runs and when they happened
  loadings,        \* the client Loading boundaries that wait for data or assets
  eb,              \* the error boundary created while hydrating and its evaluations
  orphans,         \* each client Loading boundary's owner, cleanup and resumption
  ai               \* the async iterable a hydrated memo consumes and the signal it feeds

lvars == <<prog, ctxAsync, hasHandler, dState, reactions, microtasks, memos,
           childCount, attempt, phase, runPromise, ret, awaitLeft, awaitResult,
           ctxSerialize, serializeBuffer, realLog, committed, transport, outerBuffer,
           outerBound, registered, passes, nested, outer, doneLog,
           fragment, handlerLog, thrown, rejectedAwaited, lateErrors,
           currentBoundaryId, markerLog>>

svars == <<gen, created, comp, state, patches, pending, iterCalls, iterSettled,
           nextThens, servedFirst, jobs, consumed, streamEnded, firstValue,
           lastRead, delivered>>

pvars == <<target, emitted, base, spliced>>

rvars == <<trip, server, arrived, client>>

xvars == <<sharedContext, noHydrate, planned, reentry, owned, prims, serialized, xtasks,
           xCall, caught>>

hvars == <<hydrating, walking, doneValue, doneWasSet, hydrationDone,
           pendingBoundaries, endCallbacks, cmicro, cbs, loadings, eb, orphans, ai>>

vars == <<lvars, svars, pvars, rvars, xvars, hvars>>

\* what the actions of the Loading boundary, of the streams, of the draft,
\* of the round trip, of the server primitives and of client hydration leave alone
nonLoading == <<svars, pvars, rvars, xvars, hvars>>
nonStream == <<lvars, pvars, rvars, xvars, hvars>>
nonDraft == <<lvars, svars, rvars, xvars, hvars>>
nonTrip == <<lvars, svars, pvars, xvars, hvars>>
nonServer == <<lvars, svars, pvars, rvars, hvars>>
nonClient == <<lvars, svars, pvars, rvars, xvars>>

----------------------------------------------------------------------------
(* Bounds *)

\* cap on the number of runInitially() calls of one boundary
MaxAttempts == 3

\* cap on the number of yields of a generator
MaxYields == 2

\* hole re-resolution passes are counted up to this number
MaxPasses == 2

Deferreds == {1, 2}

----------------------------------------------------------------------------
(* Values, errors, promises *)

NoErr == [tag |-> "none", src |-> "none", k |-> 0]

\* new NotReadyError(source); source is a deferred ("d") or the firstReady
\* promise of an async-iterable memo ("fr") that follows deferred k
NotReadyError(src, k) == [tag |-> "NRE", src |-> src, k |-> k]

\* the reason deferred k rejects with
RejErr(k) == [tag |-> "rej", src |-> "none", k |-> k]

BodyErr == [tag |-> "body", src |-> "none", k |-> 0]
HoleErr == [tag |-> "hole", src |-> "none", k |-> 0]

\* reading `.p` of undefined
TypeErr == [tag |-> "TypeError", src |-> "none", k |-> 0]

NoPromise == [src |-> "none", k |-> 0]

\* the value deferred k fulfils with
Val(k) == IF k = 1 THEN "V1" ELSE "V2"

\* state of a promise: firstReady swallows the rejection of its source
PromiseState(p) ==
  IF p.src = "fr"
    THEN (IF dState[p.k] = "pending" THEN "pending" ELSE "fulfilled")
    ELSE dState[p.k]

Undefined == [def |-> FALSE, t |-> <<>>, h |-> <<>>, p |-> <<>>]

NoFragment == [settled |-> FALSE, html |-> <<>>, err |-> NoErr]

\* no enclosing boundary has run
NoOuter == [phase |-> "none", registered |-> 0, ret |-> Undefined]

----------------------------------------------------------------------------
(* Children programs *)

\* memo computes: kind "sync" returns a plain value; "promise" returns
\* deferred k; "cached" returns deferred k until it has fulfilled and the
\* plain value afterwards; "iter" returns an async iterable whose first
\* next() follows deferred k; "derived" reads memo dep and then returns
\* deferred k (k = 0: a plain value)
MemoSpec(kind, k, dep) == [kind |-> kind, k |-> k, dep |-> dep]

FirstMemoSpecs ==
  {MemoSpec("sync", 0, 0)} \cup
  {MemoSpec(kind, 1, 0) : kind \in {"promise", "cached", "iter"}}

SecondMemoSpecs ==
  {MemoSpec("promise", 2, 0), MemoSpec("iter", 2, 0),
   MemoSpec("derived", 0, 1), MemoSpec("derived", 2, 1)}

\* a hole reads the memos of `chain` in order and then either throws or
\* returns the values it read
HoleSpec(chain, throws) == [chain |-> chain, throws |-> throws]

HoleLists ==
  {<<>>,
   <<HoleSpec(<<1>>, FALSE)>>,
   <<HoleSpec(<<2>>, FALSE)>>,
   <<HoleSpec(<<1>>, TRUE)>>,
   <<HoleSpec(<<1, 2>>, FALSE)>>,
   <<HoleSpec(<<1>>, FALSE), HoleSpec(<<2>>, FALSE)>>}

Programs ==
  [memos : {<<a, b>> : a \in FirstMemoSpecs, b \in SecondMemoSpecs},
   bodyRead : {0, 1, 2},
   bodyThrow : {"never", "rerender", "always"},
   holes : HoleLists]

NMemos == Len(prog.memos)

\* index in `memos` of the i-th memo of attempt att
G(att, i) == (att - 1) * NMemos + i

----------------------------------------------------------------------------
(* Async generators.  A generator body is a sequence of segments, each     *)
(* ending in a `yield`; after the last segment the body returns or throws. *)

\* one segment: whether it awaits an outside promise before it goes on, the
\* draft mutations it then makes, and the value it yields
Segment(awaits, muts, value) == [awaits |-> awaits, muts |-> muts, value |-> value]

SeqsUpTo(S, n) == UNION {[1..m -> S] : m \in 0..n}

MemoValues == {"first", "second"}

\* compute functions `async function* () { yield v1; await ...; yield v2 }`
\* and the initial value passed to createMemo
MemoGenerators ==
  {[segs |-> sg, ends |-> e, init |-> i] :
     sg \in SeqsUpTo({Segment(TRUE, <<>>, v) : v \in MemoValues}, MaxYields),
     e \in {"return", "throw"},
     i \in {"undefined", "initial"}}

\* draft mutations of one segment: draft.name = v, draft.items.push(v),
\* draft.user.name = v
MutationLists ==
  {<<>>, <<"name">>, <<"items.push">>, <<"user.name">>, <<"name", "items.push">>}

\* projection functions `async function* (draft) { ...; yield; ... }`; a
\* segment yields nothing ("undefined") or an object to assign ("obj")
ProjectionGenerators ==
  {[segs |-> sg, ends |-> e, init |-> "initial"] :
     sg \in SeqsUpTo({Segment(a, m, v) : a \in BOOLEAN, m \in MutationLists,
                                         v \in {"undefined", "obj"}}, MaxYields),
     e \in {"return", "throw"}}

NoGenerator == [segs |-> <<>>, ends |-> "return", init |-> "undefined"]

\* the initialValue of the projection's store
InitialState == [name |-> "", items |-> <<>>, user |-> [name |-> ""]]

\* the value segment k writes
Written(k) == "v" \o ToString(k)

\* the IteratorResult of the k-th iter.next(): ok = FALSE is a rejection
NextResult(k) ==
  IF k <= Len(gen.segs)
    THEN [ok |-> TRUE, done |-> FALSE, value |-> gen.segs[k].value]
  ELSE IF k = Len(gen.segs) + 1 /\ gen.ends = "throw"
    THEN [ok |-> FALSE, done |-> FALSE, value |-> "undefined"]
  ELSE [ok |-> TRUE, done |-> TRUE, value |-> "undefined"]

----------------------------------------------------------------------------
(* Side-channel writes and promise reactions.  The operators below thread  *)
(* a record st of the pieces of state that synchronous code updates:       *)
(* memos, reactions, microtasks, buffer (serializeBuffer), real (calls     *)
(* that reached origSerialize), handled (handlerLog).                      *)

\* a serialize call; att is the attempt that created the issuing primitive
\* (0: issued outside the boundary's children)
Write(id, val, att) == [id |-> id, val |-> val, att |-> att]

\* ctx.serialize(id, v) under the binding in force: the boundary's buffering
\* closure pushes to serializeBuffer, otherwise the call reaches
\* origSerialize
Serialize(st, bind, w) ==
  IF bind = "buffer"
    THEN [st EXCEPT !.buffer = Append(@, w)]
    ELSE [st EXCEPT !.real = Append(@, w)]

Reaction(type, g, src, k) == [type |-> type, g |-> g, src |-> src, k |-> k]

\* promise.then(reaction): queued at once when the promise has settled
Then(st, k, r) ==
  IF dState[k] = "pending"
    THEN [st EXCEPT !.reactions[k] = Append(@, r)]
    ELSE [st EXCEPT !.microtasks = Append(@, r)]

----------------------------------------------------------------------------
(* Server memo *)

\* what comp.compute returns or throws, from the memo's program
Compute(st, g) ==
  LET m == st.memos[g]
      sp == prog.memos[m.idx]
      dep == st.memos[G(m.att, sp.dep)]
  IN CASE sp.kind = "sync" -> [err |-> NoErr, kind |-> "sync", k |-> 0]
       [] sp.kind = "promise" -> [err |-> NoErr, kind |-> "promise", k |-> sp.k]
       [] sp.kind = "cached" ->
            IF dState[sp.k] = "fulfilled"
              THEN [err |-> NoErr, kind |-> "sync", k |-> sp.k]
              ELSE [err |-> NoErr, kind |-> "promise", k |-> sp.k]
       [] sp.kind = "iter" -> [err |-> NoErr, kind |-> "iter", k |-> sp.k]
       [] OTHER ->
            \* derived: the read of dep re-throws dep's comp.error
            IF dep.error.tag # "none"
              THEN [err |-> dep.error, kind |-> "sync", k |-> 0]
              ELSE IF sp.k = 0
                THEN [err |-> NoErr, kind |-> "sync", k |-> 0]
                ELSE [err |-> NoErr, kind |-> "promise", k |-> sp.k]

\* the value a plain compute result stands for
SyncVal(k) == IF k = 0 THEN "S" ELSE Val(k)

processResult(st, bind, g, result) ==
  LET m == st.memos[g]
      uninitialized == m.value = "undef"
  IN IF result.kind = "promise"
       THEN LET s1 == Then(st, result.k, Reaction("memoThen", g, "d", result.k))
                s2 == Serialize(s1, bind, Write(m.id, "promise", m.att))
            IN IF uninitialized
                 THEN [s2 EXCEPT !.memos[g].error = NotReadyError("d", result.k)]
                 ELSE s2
     ELSE IF result.kind = "iter"
       THEN LET s1 == Then(st, result.k, Reaction("firstReady", g, "d", result.k))
                s2 == Serialize(s1, bind, Write(m.id, "tapped", m.att))
            IN IF uninitialized
                 THEN [s2 EXCEPT !.memos[g].error = NotReadyError("fr", result.k)]
                 ELSE s2
     ELSE [st EXCEPT !.memos[g].value = SyncVal(result.k)]

\* variant of update() whose catch clause chains no retry on the source
updateNoRetry(st, bind, g) ==
  LET s0 == [st EXCEPT !.memos[g].error = NoErr]
      result == Compute(s0, g)
  IN IF result.err.tag = "none"
       THEN processResult([s0 EXCEPT !.memos[g].computed = TRUE], bind, g, result)
       ELSE [s0 EXCEPT !.memos[g].error = result.err,
                       !.memos[g].computed = TRUE]

\* createMemo's update()
update(st, bind, g) ==
  LET s0 == [st EXCEPT !.memos[g].error = NoErr]
      result == Compute(s0, g)
  IN IF result.err.tag = "none"
       THEN processResult([s0 EXCEPT !.memos[g].computed = TRUE], bind, g, result)
       ELSE LET s1 == IF result.err.tag = "NRE"
                        THEN Then(s0, result.err.k,
                                  Reaction("memoRetry", g, result.err.src, result.err.k))
                        ELSE s0
            IN [s1 EXCEPT !.memos[g].error = result.err,
                          !.memos[g].computed = TRUE]

\* createMemo(compute) called by the component body during attempt att with
\* the boundary owner current: the memo's owner takes the next child id
createMemo(st, bind, att, idx, cc) ==
  LET cnew == [att |-> att, idx |-> idx, id |-> cc, value |-> "undef",
               error |-> NoErr, computed |-> FALSE]
      s1 == [st EXCEPT !.memos = Append(@, cnew)]
  IN update(s1, bind, Len(s1.memos))

\* the memo accessor: what a read throws (NoErr: it returns comp.value)
ReadErr(st, g) == st.memos[g].error

----------------------------------------------------------------------------
(* Error routing and the template resolver *)

\* ssrHandleError(err): the source promise of a NotReadyError, else the
\* ErrorContext handler when one is in scope, else the error is re-thrown
ssrHandleError(err) ==
  IF err.tag = "NRE" THEN "promise"
  ELSE IF hasHandler THEN "handled"
  ELSE "throw"

\* the handler installed by createErrorBoundary serializes the error under
\* the error boundary's id and renders its fallback
CallHandler(st, bind, err) ==
  LET s1 == Serialize(st, bind, Write(-1, "error", 0))
  IN [s1 EXCEPT !.handled = Append(@, err)]

RECURSIVE ChainErr(_, _, _, _)
\* the error thrown by the first unreadable memo of a hole's chain
ChainErr(st, att, chain, i) ==
  IF i > Len(chain) THEN NoErr
  ELSE IF ReadErr(st, G(att, chain[i])).tag # "none"
    THEN ReadErr(st, G(att, chain[i]))
    ELSE ChainErr(st, att, chain, i + 1)

\* calling hole function h: the error it throws, or the text it returns
HoleCall(st, att, h) ==
  LET hs == prog.holes[h]
      e == ChainErr(st, att, hs.chain, 1)
  IN IF e.tag # "none" THEN [err |-> e, text |-> <<>>]
     ELSE IF hs.throws THEN [err |-> HoleErr, text |-> <<>>]
     ELSE [err |-> NoErr,
           text |-> [j \in 1..Len(hs.chain) |-> st.memos[G(att, hs.chain[j])].value]]

\* variant of the interpolation that pushes a new segment
AddTextNewSegment(t, s) == Append(t, s)

\* result.t[result.t.length - 1] += s
AddText(t, s) == [t EXCEPT ![Len(t)] = @ \o s]

RECURSIVE resolveSSR(_, _, _, _, _, _)
\* ctx.ssr(template, ...holes): interpolate; a hole that suspends is kept as
\* a hole with its promise, a hole whose error the handler took is dropped,
\* any other error propagates
resolveSSR(acc, bind, att, template, holes, i) ==
  IF acc.err.tag # "none" THEN acc
  ELSE IF i > Len(holes)
    THEN [acc EXCEPT !.t = AddText(@, template[Len(template)])]
  ELSE
    LET t1 == AddText(acc.t, template[i])
        c == HoleCall(acc.st, att, holes[i])
        how == ssrHandleError(c.err)
        next ==
          IF c.err.tag = "none"
            THEN [acc EXCEPT !.t = AddText(t1, c.text)]
          ELSE IF how = "promise"
            THEN [acc EXCEPT !.t = Append(t1, <<>>),
                             !.h = Append(@, holes[i]),
                             !.p = Append(@, [src |-> c.err.src, k |-> c.err.k])]
          ELSE IF how = "handled"
            THEN [acc EXCEPT !.t = t1, !.st = CallHandler(@, bind, c.err)]
          ELSE [acc EXCEPT !.err = c.err]
    IN CHOOSE y \in {resolveSSR(n, bind, att, template, holes, i + 1) :
                        n \in {next}} : TRUE

ssr(st, bind, att, template, holes) ==
  resolveSSR([st |-> st, t |-> <<<<>>>>, h |-> <<>>, p |-> <<>>, err |-> NoErr],
             bind, att, template, holes, 1)

\* the static segments of the template the component body returns
StaticTemplate == [i \in 1..(Len(prog.holes) + 1) |-> <<"s" \o ToString(i - 1)>>]

AllHoles == [i \in 1..Len(prog.holes) |-> i]

----------------------------------------------------------------------------
(* The Loading boundary *)

\* the threaded record of the current state
Cur == [memos |-> memos, reactions |-> reactions, microtasks |-> microtasks,
        buffer |-> serializeBuffer, real |-> realLog, handled |-> handlerLog,
        flushed |-> committed]

\* variant of dispose that keeps _childCount
disposeKeepsCount(cc) == cc

\* o.dispose(false) on the boundary owner: the next child id starts over
dispose(cc) == 0

RECURSIVE CreateMemos(_, _, _, _)
\* the createMemo calls of the component body, in order; the i-th memo is
\* created when o._childCount is cc
CreateMemos(st, att, i, cc) ==
  IF i > NMemos THEN st
  ELSE CHOOSE y \in {CreateMemos(s, att, i + 1, cc + 1) :
                        s \in {createMemo(st, "buffer", att, i, cc)}} : TRUE

\* what evaluating props.children throws after it created its memos
BodyThrows(st, att) ==
  LET readErr == IF prog.bodyRead = 0 THEN NoErr
                 ELSE ReadErr(st, G(att, prog.bodyRead))
  IN IF readErr.tag # "none" THEN readErr
     ELSE IF prog.bodyThrow = "always" \/ (prog.bodyThrow = "rerender" /\ att > 1)
       THEN BodyErr
       ELSE NoErr

\* runInitially(): one attempt at rendering the children into the buffer.
\* rp is runPromise on entry.  bind is what ctx.serialize is bound to when
\* the call is left.
runInitially(st, att, rp) ==
  LET cc0 == dispose(childCount)
      Outcome(r) ==
        IF r.err.tag = "none"
          THEN [st |-> r.st, cc |-> cc0 + NMemos, thrown |-> NoErr,
                bind |-> "orig",
                ret |-> [def |-> TRUE, t |-> r.t, h |-> r.h, p |-> r.p],
                runPromise |-> rp]
        ELSE IF ssrHandleError(r.err) = "promise"
          THEN [st |-> r.st, cc |-> cc0 + NMemos, thrown |-> NoErr,
                bind |-> "orig", ret |-> Undefined,
                runPromise |-> [src |-> r.err.src, k |-> r.err.k]]
        ELSE IF ssrHandleError(r.err) = "handled"
          THEN [st |-> CallHandler(r.st, "buffer", r.err),
                cc |-> cc0 + NMemos, thrown |-> NoErr, bind |-> "orig",
                ret |-> Undefined, runPromise |-> NoPromise]
        ELSE [st |-> r.st, cc |-> cc0 + NMemos, thrown |-> r.err,
              bind |-> "buffer", ret |-> Undefined, runPromise |-> rp]
      Resolve(s1, bodyErr) ==
        IF bodyErr.tag # "none"
          THEN [st |-> s1, t |-> <<>>, h |-> <<>>, p |-> <<>>, err |-> bodyErr]
          ELSE ssr(s1, "buffer", att, StaticTemplate, AllHoles)
  IN CHOOSE y \in
       {Outcome(r) :
          r \in {Resolve(s1, BodyThrows(s1, att)) :
                   s1 \in {CreateMemos([st EXCEPT !.buffer = <<>>], att, 1, cc0)}}} :
       TRUE

\* ctx._currentBoundaryId before any boundary has set it
NoMarker == "none"

\* `id` of the boundary
BoundaryId == "id"

\* `id` of the enclosing boundary
OuterId == "outer"

\* the marker around the children in runInitially(): prevBoundary is saved,
\* the marker is the boundary's id while ctx.resolve(props.children) runs,
\* and the statement that restores it is reached unless the error propagates
markedRun(kind, prev, threw) ==
  [kind |-> kind, before |-> prev, during |-> BoundaryId,
   after |-> IF threw THEN BoundaryId ELSE prev]

\* the marker while `runWithOwner(o, () => ctx.ssr(ret.t, ...ret.h))`
\* re-executes the holes: the loop does not assign it
holePass(cur) ==
  [kind |-> "holes", before |-> cur, during |-> cur, after |-> cur]

\* for (const args of serializeBuffer) origSerialize(...); serializeBuffer = []
Flush(st) ==
  [st EXCEPT !.real = @ \o st.buffer, !.flushed = @ \o st.buffer, !.buffer = <<>>]

DoneCall(hasHtml, html, err) == [hasHtml |-> hasHtml, html |-> html, err |-> err]

\* the callback registerFragment(id) returned, as the server tests' context
\* implements it
done(frag, call) ==
  [settled |-> TRUE,
   html |-> call.html,
   err |-> IF call.err.tag # "none" THEN call.err ELSE frag.err]

RECURSIVE PromiseAll(_, _, _)
\* Promise.all(ps) subscribes to every element, in order
PromiseAll(st, ps, i) ==
  IF i > Len(ps) THEN st
  ELSE PromiseAll(Then(st, ps[i].k, Reaction("allElem", i, ps[i].src, ps[i].k)),
                  ps, i + 1)

NoAwait == [state |-> "none", err |-> NoErr]

\* Commit the outcome of a piece of the async IIFE: x carries the threaded
\* state, the phase reached and the done call made (if any).
Commit(x) ==
  /\ memos' = x.st.memos
  /\ reactions' = x.st.reactions
  /\ microtasks' = x.st.microtasks
  /\ serializeBuffer' = x.st.buffer
  /\ realLog' = x.st.real
  /\ committed' = x.st.flushed
  /\ handlerLog' = x.st.handled
  /\ phase' = x.phase
  /\ ret' = x.ret
  /\ runPromise' = x.runPromise
  /\ awaitLeft' = x.awaitLeft
  /\ awaitResult' = x.awaitResult
  /\ childCount' = x.cc
  /\ doneLog' = IF x.called THEN Append(doneLog, x.call) ELSE doneLog
  /\ fragment' = IF x.called THEN done(fragment, x.call) ELSE fragment

Step(st, ph, r, rp, left, res, cc, called, call) ==
  [st |-> st, phase |-> ph, ret |-> r, runPromise |-> rp, awaitLeft |-> left,
   awaitResult |-> res, cc |-> cc, called |-> called, call |-> call]

NoCall == DoneCall(FALSE, <<>>, NoErr)

\* variant of the catch clause placed inside the hole loop: the error is
\* reported and the loop goes on
CaughtInsideLoop(st, r, rp, cc, err) ==
  IF r.def /\ Len(r.p) > 0
    THEN Step(PromiseAll(st, r.p, 1), "awaitHoles", r, NoPromise, Len(r.p),
              [state |-> "pending", err |-> NoErr], cc, TRUE,
              DoneCall(FALSE, <<>>, err))
    ELSE Step(st, "done", r, rp, 0, NoAwait, cc, TRUE, DoneCall(FALSE, <<>>, err))

\* variant of the catch clause that reports the wrong outcome
CaughtReportsEmpty(st, r, rp, cc, err) ==
  Step(st, "done", r, rp, 0, NoAwait, cc, TRUE, DoneCall(TRUE, <<>>, NoErr))

\* catch (err) { done(undefined, err) }
Caught(st, r, rp, cc, err) ==
  Step(st, "done", r, rp, 0, NoAwait, cc, TRUE, DoneCall(FALSE, <<>>, err))

\* the head of `while (ret.p.length)` and what follows it
HolesLoop(st, r, cc) ==
  IF ~r.def THEN Caught(st, r, NoPromise, cc, TypeErr)
  ELSE IF Len(r.p) > 0
    THEN Step(PromiseAll(st, r.p, 1), "awaitHoles", r, NoPromise, Len(r.p),
              [state |-> "pending", err |-> NoErr], cc, FALSE, NoCall)
    ELSE Step(st, "done", r, NoPromise, 0, NoAwait, cc, TRUE,
              DoneCall(TRUE, r.t[1], NoErr))

\* variant of the hole loop written as `if`: done after a single pass
NextPassOnce(st, r, cc) ==
  Step(st, "done", r, NoPromise, 0, NoAwait, cc, TRUE, DoneCall(TRUE, r.t[1], NoErr))

\* the back edge of `while (ret.p.length)`, taken after a pass re-executed
\* the holes
NextPass(st, r, cc) == HolesLoop(st, r, cc)

\* the head of `while (runPromise)` and what follows it
RenderLoop(st, r, rp, cc) ==
  IF rp.src # "none"
    THEN Step(Then(st, rp.k, Reaction("iife", 0, rp.src, rp.k)), "awaitRender",
              r, rp, 0, NoAwait, dispose(cc), FALSE, NoCall)
    ELSE HolesLoop(Flush(st), r, cc)

----------------------------------------------------------------------------
(* Deep patch proxy (createDeepProxy) and the client's patch interpreter   *)
(* (applyPatches).  The store is an object graph: a root object            *)
(* {name, items, user} whose items and user properties hold references to  *)
(* heap objects.  Property keys are strings; an array index is the         *)
(* canonical numeric string of the index.                                  *)

\* cap on the number of patch operations one draft records
MaxPatches == 3

\* cap on the length of an array
MaxArrayLen == 3

\* a property that is not there, and a hole of an array
Absent == "<absent>"
Empty == "<empty>"

DraftValues == {"a", "b"}

ArrayObj(elems) == [type |-> "array", elems |-> elems, name |-> Absent]
PlainObj(name) == [type |-> "object", elems |-> <<>>, name |-> name]

\* the store {name, items: [...elems], user: {name: uname}}
Graph(name, elems, uname) ==
  [root |-> [name |-> name, items |-> 1, user |-> 2],
   heap |-> <<ArrayObj(elems), PlainObj(uname)>>]

\* a value written to a property: a primitive or a reference to a heap object
Prim(v) == [ref |-> 0, v |-> v]
Ref(id) == [ref |-> id, v |-> ""]

ToIndex(key) == CHOOSE i \in 0..MaxArrayLen : ToString(i) = key

\* arr.length = n
SetLength(elems, n) ==
  IF n <= Len(elems) THEN SubSeq(elems, 1, n)
  ELSE elems \o [i \in 1..(n - Len(elems)) |-> Empty]

\* arr[key] = v
ArraySet(elems, key, v) ==
  IF key = "length" THEN SetLength(elems, ToIndex(v))
  ELSE LET i == ToIndex(key)
       IN IF i < Len(elems) THEN [elems EXCEPT ![i + 1] = v]
          ELSE Append(SetLength(elems, i), v)

\* delete arr[key]: the element becomes a hole, the length stays
ArrayDelete(elems, key) ==
  LET i == ToIndex(key)
  IN IF i < Len(elems) THEN [elems EXCEPT ![i + 1] = Empty] ELSE elems

\* Array.prototype.splice(start, deleteCount, ...items), start >= 0
ArraySplice(elems, start, deleteCount, items) ==
  LET len == Len(elems)
      s == IF start < len THEN start ELSE len
      d == IF deleteCount < len - s THEN deleteCount ELSE len - s
  IN SubSeq(elems, 1, s) \o items \o SubSeq(elems, s + d + 1, len)

\* the object a path leads to: the root (0) or the heap object that the
\* root property path[1] refers to
Walk(g, path) == IF path = <<>> THEN 0 ELSE g.root[path[1]]

\* obj[key] = value on the object at path
GraphSet(g, path, key, val) ==
  LET id == Walk(g, path)
  IN IF id = 0
       THEN [g EXCEPT !.root[key] = IF val.ref = 0 THEN val.v ELSE val.ref]
     ELSE IF g.heap[id].type = "array"
       THEN [g EXCEPT !.heap[id].elems = ArraySet(@, key, val.v)]
     ELSE [g EXCEPT !.heap[id].name = val.v]

\* delete obj[key] on the object at path
GraphDelete(g, path, key) ==
  LET id == Walk(g, path)
  IN IF id = 0 THEN [g EXCEPT !.root[key] = Absent]
     ELSE IF g.heap[id].type = "array"
       THEN [g EXCEPT !.heap[id].elems = ArrayDelete(@, key)]
     ELSE [g EXCEPT !.heap[id].name = Absent]

\* a new object literal
Alloc(g, obj) == [g EXCEPT !.heap = Append(@, obj)]

\* PatchOp: [path] (len 1), [path, value] (len 2), [path, value, 1] (len 3)
PatchOp(len, path, value) == [len |-> len, path |-> path, value |-> value]

NoValue == Prim("")

\* The operators below thread a record s of the proxy's target graph g and
\* of its patch list.

\* the proxy's set trap: records [path, value], the value as it was
\* passed, and writes through
setTrap(s, basePath, key, value) ==
  [g |-> GraphSet(s.g, basePath, key, value),
   patches |-> Append(s.patches, PatchOp(2, Append(basePath, key), value))]

\* the proxy's deleteProperty trap: records [path] and deletes
deletePropertyTrap(s, basePath, key) ==
  [g |-> GraphDelete(s.g, basePath, key),
   patches |-> Append(s.patches, PatchOp(1, Append(basePath, key), NoValue))]

\* the array behind the proxy with this basePath
Elems(s, basePath) == s.g.heap[Walk(s.g, basePath)].elems

\* the function the get trap returns for "shift"
shift(s, basePath) ==
  IF Len(Elems(s, basePath)) = 0 THEN s
  ELSE [g |-> [s.g EXCEPT !.heap[Walk(s.g, basePath)].elems = Tail(@)],
        patches |-> Append(s.patches, PatchOp(1, Append(basePath, "0"), NoValue))]

\* the function the get trap returns for "unshift"
unshift(s, basePath, items) ==
  [g |-> [s.g EXCEPT !.heap[Walk(s.g, basePath)].elems = items \o @],
   patches |-> s.patches \o
     [i \in 1..Len(items) |->
        PatchOp(3, Append(basePath, ToString(i - 1)), Prim(items[i]))]]

\* const s = start < 0 ? Math.max(len + start, 0) : Math.min(start, len)
spliceStart(len, start) ==
  IF start < 0 THEN (IF len + start > 0 THEN len + start ELSE 0)
  ELSE (IF start < len THEN start ELSE len)

\* variant of spliceCount: no upper clamp at len - s
spliceCountUnclamped(len, s1, given, deleteCount) ==
  IF ~given THEN len - s1
  ELSE IF deleteCount > 0 THEN deleteCount ELSE 0

\* const d = deleteCount === undefined ? len - s
\*                                      : Math.min(Math.max(deleteCount, 0), len - s)
spliceCount(len, s1, given, deleteCount) ==
  IF ~given THEN len - s1
  ELSE LET d0 == IF deleteCount > 0 THEN deleteCount ELSE 0
       IN IF d0 < len - s1 THEN d0 ELSE len - s1

\* the function the get trap returns for "splice"; given says whether a
\* deleteCount was passed
splice(s, basePath, start, given, deleteCount, items) ==
  LET len == Len(Elems(s, basePath))
      s1 == spliceStart(len, start)
      d == spliceCount(len, s1, given, deleteCount)
  IN [g |-> [s.g EXCEPT !.heap[Walk(s.g, basePath)].elems =
                          ArraySplice(@, s1, d, items)],
      patches |-> s.patches
        \o [i \in 1..d |-> PatchOp(1, Append(basePath, ToString(s1)), NoValue)]
        \o [i \in 1..Len(items) |->
              PatchOp(3, Append(basePath, ToString(s1 + i - 1)), Prim(items[i]))]]

\* no splice has been called
NoSplice ==
  [called |-> FALSE, len |-> 0, start |-> 0, given |-> FALSE, deleteCount |-> 0,
   items |-> <<>>, removed |-> 0, patches |-> <<>>]

\* Array.prototype.push on the proxy: sets the index, then length
push(s, basePath, v) ==
  LET len == Len(Elems(s, basePath))
  IN setTrap(setTrap(s, basePath, ToString(len), Prim(v)),
             basePath, "length", Prim(ToString(len + 1)))

\* Array.prototype.pop on the proxy: deletes the last index, then sets length
pop(s, basePath) ==
  LET len == Len(Elems(s, basePath))
  IN IF len = 0 THEN setTrap(s, basePath, "length", Prim("0"))
     ELSE setTrap(deletePropertyTrap(s, basePath, ToString(len - 1)),
                  basePath, "length", Prim(ToString(len - 1)))

\* A patch as the client receives it: the batch is written when it is
\* handed over, so a value that is an object is written as the object is
\* at that time.
Wire(g, patch) ==
  [len |-> patch.len, path |-> patch.path,
   value |-> [isObject |-> patch.value.ref # 0, v |-> patch.value.v,
              obj |-> IF patch.value.ref # 0 THEN g.heap[patch.value.ref]
                      ELSE PlainObj(Absent)]]

Wired(g, ps) == [i \in 1..Len(ps) |-> Wire(g, ps[i])]

\* the body of the client interpreter's loop
ApplyPatch(t, patch) ==
  LET path == SubSeq(patch.path, 1, Len(patch.path) - 1)
      key == patch.path[Len(patch.path)]
      current == Walk(t, path)
      isArray == current # 0 /\ t.heap[current].type = "array"
  IN IF patch.len = 1
       THEN IF isArray
              THEN [t EXCEPT !.heap[current].elems = ArraySplice(@, ToIndex(key), 1, <<>>)]
              ELSE GraphDelete(t, path, key)
     ELSE IF patch.len = 3
       THEN [t EXCEPT !.heap[current].elems =
                        ArraySplice(@, ToIndex(key), 0, <<patch.value.v>>)]
     ELSE IF patch.value.isObject
       THEN GraphSet(Alloc(t, patch.value.obj), path, key, Ref(Len(t.heap) + 1))
     ELSE GraphSet(t, path, key, Prim(patch.value.v))

RECURSIVE applyPatches(_, _)
\* the client's applyPatches(target, patches)
applyPatches(t, ps) ==
  IF ps = <<>> THEN t
  ELSE CHOOSE y \in {applyPatches(n, Tail(ps)) : n \in {ApplyPatch(t, ps[1])}} : TRUE

\* the structure reachable from the root
Snapshot(g) ==
  [name |-> g.root.name, items |-> g.heap[g.root.items].elems,
   user |-> g.heap[g.root.user].name]

\* no draft is in use
DraftFresh ==
  /\ target = Graph("", <<>>, "")
  /\ emitted = <<>>
  /\ base = target
  /\ spliced = NoSplice

----------------------------------------------------------------------------
(* Round trip of a memo or a function-form signal: the server side         *)
(* (createMemo, createSignal, processResult) and the client side           *)
(* (hydratedCreateMemo, hydratedCreateSignal)                              *)

\* JavaScript values a compute can produce: a string, 0, "", false, null
\* and undefined
JsValues == {"a", "zero", "empty", "false", "null", "undefined"}

Nullish(v) == v \in {"null", "undefined"}

\* a plain value; the Promise or async iterable a compute returned in
\* environment env, which settles with (first yields) v; the Signal tuple
\* [getter, setter] around a value
Plain(v) == [kind |-> "plain", v |-> v, env |-> "none", tuple |-> FALSE]
Object(kind, v, env) == [kind |-> kind, v |-> v, env |-> env, tuple |-> FALSE]
Tuple(x) == [x EXCEPT !.tuple = TRUE]

\* a primitive: createMemo or createSignal(fn), its ssrSource option, what
\* its compute returns (a plain value v, a Promise of v, an async iterable
\* that yields v or nothing) and the initial value passed
Trips ==
  {t \in [prim : {"memo", "signal"}, ssrSource : {"server", "hybrid", "default"},
          result : {"sync", "promise", "iter"}, v : JsValues,
          init : {"undefined", "initial"}, yields : BOOLEAN] :
     t.result = "iter" \/ t.yields}

\* what compute returns when it runs in environment env
ComputeResult(t, env) ==
  IF t.result = "sync" THEN Plain(t.v) ELSE Object(t.result, t.v, env)

\* a ServerComputation: wire is what was passed to ctx.serialize, settled
\* tells that the result has settled
NoComp ==
  [value |-> Plain("undefined"), error |-> "none", wire |-> "none",
   settled |-> FALSE]

\* processResult(comp, result, owner, ctx, deferStream, ssrSource) up to
\* its return
TripProcessResult(c, result, ssrSource) ==
  LET uninitialized == c.value = Plain("undefined")
      error == IF uninitialized THEN "NotReady" ELSE c.error
  IN IF result.kind = "promise" /\ ~result.tuple
       THEN [c EXCEPT !.wire = "promise", !.error = error]
     ELSE IF result.kind = "iter" /\ ~result.tuple
       THEN [c EXCEPT !.wire = IF ssrSource = "hybrid" THEN "hybridPromise"
                                ELSE "tapped",
                      !.error = error]
     ELSE [c EXCEPT !.value = result, !.settled = TRUE]

\* server createMemo(compute, value, options)
TripCreateMemo(result, value, ssrSource) ==
  TripProcessResult([NoComp EXCEPT !.value = Plain(value)], result, ssrSource)

\* server createSignal(fn, second, third): a memo whose compute wraps fn's
\* result in a Signal tuple
TripCreateSignal(t) ==
  TripCreateMemo(Tuple(ComputeResult(t, "server")), "undefined", t.ssrSource)

\* the reactions processResult chained on the Promise (on the first next())
TripSettled(t, c) ==
  IF c.wire = "promise"
    THEN [c EXCEPT !.value = Plain(t.v), !.error = "none", !.settled = TRUE]
  ELSE IF c.wire = "hybridPromise"
    THEN [c EXCEPT !.value = Plain(IF t.yields THEN t.v ELSE "undefined"),
                   !.error = "none", !.settled = TRUE]
  ELSE IF t.yields
    THEN [c EXCEPT !.value = Plain(t.v), !.error = "none", !.settled = TRUE]
  ELSE [c EXCEPT !.settled = TRUE]

\* a server read: the memo's accessor, or the signal's getter memo()[0]()
ServerRead(t, c) ==
  IF t.prim = "signal" THEN [c.value EXCEPT !.tuple = FALSE] ELSE c.value

\* what sharedConfig.load(id) returns: has is sharedConfig.has(id); s tells
\* that the promise has settled (that the iterable's first result is
\* buffered); v is the settled promise's v (the buffered first value);
\* fulfil is the value the promise fulfils with
Data(has, kind, st, v, fulfil) ==
  [has |-> has, kind |-> kind, s |-> st, v |-> v, fulfil |-> fulfil]

NoData == Data(FALSE, "none", FALSE, "undefined", "undefined")

\* What the hydration store can hold for the primitive when the client
\* hydrates it.  The promise processResult derives for a hybrid iterable
\* carries the first value as its v property and fulfils with undefined:
\* which of the two the transport delivers is not decided here.
Arrivals(t, c) ==
  IF c.wire = "none" THEN {NoData}
  ELSE IF c.wire = "promise"
    THEN {Data(TRUE, "promise", FALSE, "undefined", t.v)}
         \cup {Data(TRUE, "promise", TRUE, t.v, t.v) : x \in {y \in {1} : c.settled}}
  ELSE IF c.wire = "hybridPromise"
    THEN {Data(TRUE, "promise", FALSE, "undefined", f) :
            f \in {IF t.yields THEN t.v ELSE "undefined", "undefined"}}
         \cup {Data(TRUE, "promise", TRUE, f, f) :
                 f \in {g \in {c.value.v, "undefined"} : c.settled}}
  ELSE {Data(TRUE, "iterable", FALSE, "undefined", "undefined")}
       \cup {Data(TRUE, "iterable", TRUE, t.v, t.v) :
               x \in {y \in {1} : c.settled /\ t.yields}}

\* the hydrated primitive: pending tells that its compute returned a
\* Promise that has not settled, next is what the Promise settles with,
\* first is the first value a read returned
NoClient ==
  [hydrated |-> FALSE, pending |-> FALSE, value |-> Plain("undefined"),
   next |-> "undefined", first |-> [set |-> FALSE, value |-> Plain("undefined")]]

Ready(v) ==
  [hydrated |-> TRUE, pending |-> FALSE, value |-> Plain(v), next |-> v,
   first |-> [set |-> TRUE, value |-> Plain(v)]]

Awaiting(v) ==
  [hydrated |-> TRUE, pending |-> TRUE, value |-> Plain("undefined"),
   next |-> v, first |-> [set |-> FALSE, value |-> Plain("undefined")]]

\* the core's memo over what its compute returned: a plain value is the
\* memo's value, a Promise or async iterable makes it pending
CoreMemo(result) ==
  IF result.kind = "plain" THEN Ready(result.v) ELSE Awaiting(result.v)

\* consumeFirstSync: the first result when it is there synchronously
consumeFirstSync(data) == IF data.s THEN data.v ELSE "undefined"

\* hydrateSignalFromAsyncIterable: a signal seeded with the first value
hydrateSignalFromAsyncIterable(data) == Ready(consumeFirstSync(data))

\* variant of the hydrated compute that returns the initial value, as the
\* ssrSource "initial" branch does
hydratedComputeInitial(t, data) == Plain(t.init)

\* the compute hydratedCreateMemo / hydratedCreateSignal hand to the core:
\* init = initP?.v ?? initP; init != null ? init : compute(prev)
hydratedCompute(t, data) ==
  IF data.has
    THEN IF data.s /\ ~Nullish(data.v) THEN Plain(data.v)
         ELSE Object("promise", data.fulfil, "wire")
    ELSE ComputeResult(t, "client")

\* hydratedCreateMemo / hydratedCreateSignal for ssrSource server, hybrid
\* or undefined, while hydrating
hydratedCreate(t, data) ==
  IF data.has /\ data.kind = "iterable"
    THEN hydrateSignalFromAsyncIterable(data)
    ELSE CoreMemo(hydratedCompute(t, data))

\* no primitive has been created
TripFresh ==
  /\ trip = CHOOSE t \in Trips : TRUE
  /\ server = NoComp
  /\ arrived = NoData
  /\ client = NoClient

----------------------------------------------------------------------------
(* Server primitives created under one owner: createMemo, the function
   form of createSignal, createProjection and createErrorBoundary, with the
   HydrationContext each captures and the ids createOwner hands out *)

\* the HydrationContexts of two concurrent requests; sharedConfig.context
\* may also be unset
Contexts == {"A", "B"}
NoContext == "none"

\* options.ssrSource; "default" stands for an absent option
Modes == {"default", "server", "hybrid", "initial", "client"}

\* what fn / compute does: return a value, return a Promise, throw a
\* NotReadyError carrying a pending source and return a Promise when re-run
Kinds == {"sync", "promise", "retry"}

\* what the fn of an error boundary does: return, throw an error, throw a
\* NotReadyError, or return and have a descendant hand an error to the
\* ErrorContext handler later
BoundaryKinds == {"ok", "throws", "notReady", "routes"}

SkipsCompute(mode) == mode \in {"initial", "client"}

\* a promise compute returns: its state, the s and v fields the reaction
\* writes, whether the reaction is registered and whether it has run
Unreturned ==
  [state |-> "pending", s |-> 0, v |-> "undefined", reg |-> FALSE, ran |-> FALSE]

\* ServerComputation together with the options and the owner it was created with
Primitive(prim, mode, kind, lazy, init, id, ctx) ==
  [prim |-> prim, mode |-> mode, kind |-> kind, lazy |-> lazy, init |-> init,
   id |-> id, ctx |-> ctx, computed |-> FALSE,
   value |-> IF init THEN "init" ELSE "undefined", error |-> "none",
   p |-> Unreturned, src |-> "pending", chained |-> FALSE, handled |-> FALSE]

\* the outcome of a step of a primitive: its record, the ctx.serialize calls
\* made and the promise reactions that became ready
Did(q, ser, tasks) == [q |-> q, ser |-> ser, tasks |-> tasks]

\* one ctx.serialize(id, what) call on context c
SerializeCall(c, id, what) == [ctx |-> c, id |-> id, what |-> what]

\* variant of serializeContext: the context is looked up when serialize is called
serializeContextCurrent(q, current) == current

\* the context a computation serializes to: the one captured at creation
serializeContext(q, current) == q.ctx

\* the child ids one creation takes from the current owner: one createOwner()
\* call on every path

\* variant of OwnersCreated: a primitive that skips its computation allocates no owner
OwnersCreatedUnlessSkipped(prim, mode) == IF SkipsCompute(mode) THEN 0 ELSE 1

OwnersCreated(prim, mode) == 1

\* what compute returns now: "notReady" is a thrown NotReadyError
computeNow(q) ==
  IF q.kind = "sync" THEN "value"
  ELSE IF q.kind = "promise" \/ q.src = "fulfilled" THEN "promise"
  ELSE "notReady"

\* the result createMemo's processResult receives: the function form of
\* createSignal wraps whatever fn returned in a [getter, setter] tuple
Wrapped(q, result) ==
  IF q.prim = "signal"
    THEN (IF result = "promise" THEN "tuple_promise" ELSE "tuple_v")
    ELSE (IF result = "promise" THEN "promise" ELSE "v")

serverProcessResult(q, i, result, ctx) ==
  IF result = "promise"
    THEN Did([q EXCEPT !.p.reg = TRUE,
                        !.error = IF q.value = "undefined" THEN "NRE_p" ELSE q.error],
              IF ctx # NoContext THEN <<SerializeCall(ctx, q.id, "promise")>> ELSE <<>>,
              IF q.p.state = "fulfilled" THEN <<[i |-> i, job |-> "then"]>> ELSE <<>>)
    ELSE Did([q EXCEPT !.value = result], <<>>, <<>>)

\* memoUpdate() of createMemo
memoUpdate(q, i, current) ==
  IF computeNow(q) = "notReady"
    THEN Did([q EXCEPT !.error = "NRE_src", !.computed = TRUE, !.chained = TRUE],
              <<>>, <<>>)
    ELSE serverProcessResult([q EXCEPT !.error = "none", !.computed = TRUE], i,
                             Wrapped(q, computeNow(q)), serializeContext(q, current))

\* variant of skipsSerialization: only "initial" skips the computation
skipsOnlyInitial(mode) == mode = "initial"

\* the modes under which creation runs no computation and serializes nothing
skipsSerialization(mode) == SkipsCompute(mode)

serverCreateMemo(prim, mode, kind, lazy, init, i, id, current) ==
  IF skipsSerialization(mode)
    THEN Did([Primitive(prim, mode, kind, lazy, init, id, current)
                 EXCEPT !.computed = TRUE], <<>>, <<>>)
  ELSE IF ~lazy
    THEN memoUpdate(Primitive(prim, mode, kind, lazy, init, id, current), i, current)
  ELSE Did(Primitive(prim, mode, kind, lazy, init, id, current), <<>>, <<>>)

\* the function form of createSignal: a plain signal holding the initial value,
\* or a memo over the wrapped fn
serverCreateSignal(mode, kind, i, id, current) ==
  IF skipsSerialization(mode)
    THEN Did([Primitive("signal", mode, kind, FALSE, TRUE, id, current)
                 EXCEPT !.computed = TRUE], <<>>, <<>>)
    ELSE serverCreateMemo("signal", mode, kind, FALSE, FALSE, i, id, current)

\* createProjection with a fn that mutates the draft or returns a Promise
serverCreateProjection(mode, kind, i, id, current, noHyd) ==
  IF skipsSerialization(mode)
    THEN Did([Primitive("projection", mode, kind, FALSE, TRUE, id, current)
                 EXCEPT !.computed = TRUE], <<>>, <<>>)
  ELSE IF kind = "promise"
    THEN Did([Primitive("projection", mode, kind, FALSE, TRUE, id, current)
                 EXCEPT !.computed = TRUE, !.p.reg = TRUE, !.error = "NRE_p"],
              IF current # NoContext /\ ~noHyd[current]
                THEN <<SerializeCall(current, id, "promise")>> ELSE <<>>,
              <<>>)
  ELSE Did([Primitive("projection", mode, kind, FALSE, TRUE, id, current)
               EXCEPT !.computed = TRUE, !.value = "v"], <<>>, <<>>)

\* variant of boundaryCatch: only the synchronous catch serializes
boundaryCatchSyncOnly(q, err, path, noHyd) ==
  Did([q EXCEPT !.value = "fallback", !.handled = TRUE],
       IF path = "sync" /\ q.ctx # NoContext /\ ~noHyd[q.ctx]
         THEN <<SerializeCall(q.ctx, q.id, err)>> ELSE <<>>,
       <<>>)

\* what an error boundary does with an error, in its catch block
\* (path "sync") and in its ErrorContext handler (path "handler")
boundaryCatch(q, err, path, noHyd) ==
  Did([q EXCEPT !.value = "fallback", !.handled = TRUE],
       IF q.ctx # NoContext /\ ~noHyd[q.ctx]
         THEN <<SerializeCall(q.ctx, q.id, err)>> ELSE <<>>,
       <<>>)

serverCreateErrorBoundary(kind, id, current, noHyd) ==
  IF kind = "throws"
    THEN boundaryCatch(Primitive("boundary", "default", kind, FALSE, FALSE, id, current),
                       "err", "sync", noHyd)
  ELSE IF kind = "notReady"
    THEN boundaryCatch(Primitive("boundary", "default", kind, FALSE, FALSE, id, current),
                       "NRE_src", "sync", noHyd)
  ELSE Did([Primitive("boundary", "default", kind, FALSE, FALSE, id, current)
               EXCEPT !.value = "v", !.computed = TRUE], <<>>, <<>>)

\* the accessor createMemo returns, and the getters of a signal and of a
\* projection: a lazy memo computes on its first read
serverAccess(q, i, current) ==
  IF ~q.computed THEN memoUpdate(q, i, current) ELSE Did(q, <<>>, <<>>)

\* what a read hands its caller: a thrown error or the value
Outcome(q) ==
  IF q.error # "none"
    THEN [threw |-> TRUE, value |-> q.error]
    ELSE [threw |-> FALSE,
          value |-> IF q.value = "tuple_promise" THEN "promise"
                    ELSE IF q.value = "tuple_v" THEN "v" ELSE q.value]

\* variant of serverIsPending: a NotReadyError always reads as pending
serverIsPendingTrue(out, argc, fallback) ==
  IF ~out.threw THEN [threw |-> FALSE, value |-> "false"]
  ELSE [threw |-> FALSE, value |-> IF argc > 1 THEN fallback ELSE "true"]

\* isPending(fn) and isPending(fn, fallback) over the outcome of fn; every
\* error the primitives throw here is a NotReadyError
serverIsPending(out, argc, fallback) ==
  IF ~out.threw THEN [threw |-> FALSE, value |-> "false"]
  ELSE IF argc > 1 THEN [threw |-> FALSE, value |-> fallback]
  ELSE [threw |-> TRUE, value |-> out.value]

\* a call of a primitive's accessor (argc 0) or of isPending over it: what
\* the accessor did, what the caller got, and whether the promise had
\* fulfilled and its reaction had run by then
Access(i, argc, out, r, q) ==
  [i |-> i, argc |-> argc, fnThrew |-> out.threw, threw |-> r.threw,
   value |-> r.value, settled |-> q.p.state = "fulfilled", ran |-> q.p.ran,
   s |-> q.p.s, v |-> q.p.v]
NoAccess == [i |-> 0, argc |-> 0, fnThrew |-> FALSE, threw |-> FALSE,
             value |-> "undefined", settled |-> FALSE, ran |-> FALSE,
             s |-> 0, v |-> "undefined"]

\* no Loading boundary of a request has been rendered
NoReentry == [ctx |-> NoContext, phase |-> "none", attempts |-> 0, sweeps |-> 0, made |-> <<>>]

\* const ctx = sharedConfig.context at the top of Loading
loadingContext(current) == current

\* what a run of the boundary's children creates: a memo, a projection and a
\* nested Loading boundary, each with the context it takes at its creation
childrenCreate(current, noHyd, during) ==
  <<[what |-> "memo", during |-> during,
     ctx |-> serverCreateMemo("memo", "default", "promise", FALSE, FALSE, 1, 1,
                              current).q.ctx],
    [what |-> "projection", during |-> during,
     ctx |-> serverCreateProjection("default", "promise", 2, 2, current, noHyd).q.ctx],
    [what |-> "boundary", during |-> during, ctx |-> loadingContext(current)]>>

\* no primitive has been created under the owner
ServerIdle ==
  /\ sharedContext = "A"
  /\ reentry = NoReentry
  /\ noHydrate = [c \in Contexts |-> c = "B"]
  /\ owned = 0
  /\ prims = <<>>
  /\ serialized = <<>>
  /\ xtasks = <<>>
  /\ xCall = NoAccess
  /\ caught = <<>>

\* a render that creates none of these primitives
ServerFresh ==
  /\ ServerIdle
  /\ planned = 0

----------------------------------------------------------------------------
(* Client hydration: the hydration phase (onHydrationEnd, the hydrating and
   done interceptors, the Loading boundaries that wait for data or assets)
   and the error boundary hydrated from a serialized error *)

MaxCallbacks == 2
MaxBoundaries == 2
MaxEvals == 3
MaxRuns == 2
MaxResults == 3

HydrationCallbacks == 1..MaxCallbacks
LoadingBoundaries == 1..MaxBoundaries

\* what a client Loading boundary waits for: server data (with or without
\* assets), the "$$f" marker of a fallback the server left, or assets only
WaitKinds == {"data", "fallback", "assets"}

NoCallback == [state |-> "none", runs |-> 0, during |-> FALSE, early |-> FALSE]
NoLoading == [state |-> "none", kind |-> "none"]

\* the module-level state of the hydration phase
Client ==
  [hydrating |-> hydrating, walking |-> walking, done |-> doneValue,
   doneWasSet |-> doneWasSet, hydrationDone |-> hydrationDone,
   pending |-> pendingBoundaries, callbacks |-> endCallbacks, micro |-> cmicro,
   cbs |-> cbs, loadings |-> loadings]

\* a Loading boundary that began waiting has not resumed, failed or released
\* its fallback
AnyWaiting(w) == \E b \in LoadingBoundaries : w.loadings[b].state = "waiting"

\* callback c is invoked
runCallback(w, c) ==
  [w EXCEPT !.cbs[c].state = "ran",
            !.cbs[c].runs = IF @ < MaxRuns THEN @ + 1 ELSE @,
            !.cbs[c].early = @ \/ ((w.walking \/ AnyWaiting(w)) /\ ~w.doneWasSet)]

\* for (const cb of cbs) cb()
RECURSIVE runAll(_, _)
runAll(w, cs) ==
  IF cs = <<>> THEN w ELSE runAll(runCallback(w, Head(cs)), Tail(cs))

\* variant of drainHydrationCallbacks: no _hydrationDone guard, the list is kept
drainKeepsCallbacks(w) ==
  runAll([w EXCEPT !.hydrationDone = TRUE, !.done = TRUE], w.callbacks)

drainHydrationCallbacks(w) ==
  IF w.hydrationDone THEN w
  ELSE runAll([w EXCEPT !.hydrationDone = TRUE, !.done = TRUE, !.callbacks = <<>>],
              w.callbacks)

checkHydrationComplete(w) ==
  IF w.pending = 0 THEN drainHydrationCallbacks(w) ELSE w

\* onHydrationEnd(callback) for callback c; "during" records whether
\* hydration was under way when it was registered
onHydrationEnd(w, c) ==
  IF w.hydrationDone \/ (~w.hydrating /\ w.pending = 0)
    THEN [w EXCEPT !.micro = Append(@, c), !.cbs[c].state = "queued",
                   !.cbs[c].during = w.hydrating \/ AnyWaiting(w)]
    ELSE [w EXCEPT !.callbacks = Append(@, c), !.cbs[c].state = "listed",
                   !.cbs[c].during = w.hydrating \/ AnyWaiting(w)]

\* the setter of sharedConfig.hydrating
setHydrating(w, v) ==
  IF ~w.hydrating /\ v
    THEN [w EXCEPT !.hydrating = TRUE, !.walking = TRUE, !.hydrationDone = FALSE,
                   !.done = FALSE, !.pending = 0]
  ELSE IF w.hydrating /\ ~v
    THEN checkHydrationComplete([w EXCEPT !.hydrating = FALSE, !.walking = FALSE])
  ELSE w

\* the setter of sharedConfig.done
setDone(w, v) ==
  IF v THEN drainHydrationCallbacks([w EXCEPT !.done = TRUE, !.doneWasSet = TRUE])
  ELSE [w EXCEPT !.done = FALSE]

\* Loading finds data or assets to wait for: _pendingBoundaries++
loadingWaits(w, b, kind) ==
  [w EXCEPT !.pending = @ + 1, !.loadings[b] = [state |-> "waiting", kind |-> kind]]

\* what the children of a resumed boundary do while it hydrates: register
\* callback reg (0: none), and a nested Loading nest (0: none) begins to wait
resumedChildren(w, reg, nest, kind) ==
  IF reg # 0 /\ nest # 0 THEN loadingWaits(onHydrationEnd(w, reg), nest, kind)
  ELSE IF reg # 0 THEN onHydrationEnd(w, reg)
  ELSE IF nest # 0 THEN loadingWaits(w, nest, kind)
  ELSE w

resumeBoundaryHydration(w, b, disposed, reg, nest, kind) ==
  IF disposed
    THEN checkHydrationComplete(
           [w EXCEPT !.pending = @ - 1, !.loadings[b].state = "cancelled"])
    ELSE checkHydrationComplete(
           [resumedChildren(
              [w EXCEPT !.pending = @ - 1, !.loadings[b].state = "resumed",
                        !.hydrating = TRUE],
              reg, nest, kind)
            EXCEPT !.hydrating = FALSE])

\* the rejection handler of waitFor.then in Loading
boundaryRejected(w, b) ==
  checkHydrationComplete([w EXCEPT !.pending = @ - 1, !.loadings[b].state = "failed"])

\* afterAssets of a "$$f" boundary
afterAssets(w, b) ==
  checkHydrationComplete([w EXCEPT !.pending = @ - 1, !.loadings[b].state = "released"])

\* the statements of resumeBoundaryHydration up to the point where set() or
\* flush() throws while the children re-run: nothing after them is executed
resumeBoundaryThrows(w, b, reg, nest, kind) ==
  resumedChildren(
    [w EXCEPT !.pending = @ - 1, !.loadings[b].state = "threw", !.hydrating = TRUE],
    reg, nest, kind)

\* the owner of a client Loading boundary: whether it was disposed, the
\* cleanupFragment(id) calls made for it, whether resumption gathered its
\* serialized entry and re-ran its children
NoOrphan == [disposed |-> FALSE, cleanups |-> 0, gathered |-> FALSE, reran |-> FALSE]

\* variant of boundaryCleanup: no isDisposed test
boundaryCleanupAlways(f, hasCleanup, isDisposed) ==
  IF hasCleanup THEN [f EXCEPT !.cleanups = @ + 1] ELSE f

\* the onCleanup callback Loading registers when it waits for data; it
\* runs when the owner is disposed and when the boundary's memo re-runs
boundaryCleanup(f, hasCleanup, isDisposed) ==
  IF hasCleanup /\ isDisposed THEN [f EXCEPT !.cleanups = @ + 1] ELSE f

\* what resumeBoundaryHydration does with the boundary: gather(id), and set()
\* with flush() re-run the memo, whose cleanups run first
resumeOrphan(f, hasCleanup) ==
  IF f.disposed THEN f
  ELSE [boundaryCleanup(f, hasCleanup, FALSE) EXCEPT !.gathered = TRUE, !.reran = TRUE]

\* the values a serialized async iterable delivers before it is done
IterableYields == SeqsUpTo(MemoValues, MaxResults)

\* no memo has been hydrated from an async iterable
NoIterable ==
  [made |-> FALSE, yields |-> <<>>, calls |-> 0, firstSync |-> FALSE,
   firstValue |-> "undefined", value |-> "undefined", writes |-> <<>>,
   waiting |-> FALSE, thens |-> 0, finished |-> FALSE]

\* the apply callback of hydrateSignalFromAsyncIterable: set(() => v); flush()
applyValue(a, v) == [a EXCEPT !.value = v, !.writes = Append(@, v)]

\* the while (true) loop of consume: n results come back synchronously and
\* are applied, then iter.next() gives done (endSync, when nothing is left)
\* or a Promise on which the reaction is registered
RECURSIVE consume(_, _, _)
consume(a, n, endSync) ==
  IF n > 0 /\ a.calls < Len(a.yields)
    THEN consume(applyValue([a EXCEPT !.calls = @ + 1], a.yields[a.calls + 1]),
                 n - 1, endSync)
  ELSE IF endSync /\ a.calls >= Len(a.yields)
    THEN [a EXCEPT !.calls = @ + 1, !.finished = TRUE]
  ELSE [a EXCEPT !.calls = @ + 1, !.waiting = TRUE, !.thens = @ + 1]

\* variant of nextSettled: the reaction does not apply r.value
nextSettledDropsValue(a, n, endSync) ==
  IF a.calls > Len(a.yields)
    THEN [a EXCEPT !.waiting = FALSE, !.finished = TRUE]
    ELSE consume([a EXCEPT !.waiting = FALSE], n, endSync)

\* the reaction n.then(r => { if (r.done) return; apply(r.value); consume() })
nextSettled(a, n, endSync) ==
  IF a.calls > Len(a.yields)
    THEN [a EXCEPT !.waiting = FALSE, !.finished = TRUE]
    ELSE consume(applyValue([a EXCEPT !.waiting = FALSE], a.yields[a.calls]),
                 n, endSync)

\* consumeFirstSync over an iterator whose k-th next() delivers the k-th
\* result: the value of the first result when next() returns it and not a
\* Promise, and it is not done; undefined otherwise
firstSyncValue(yields, sync) ==
  IF sync /\ yields # <<>> THEN yields[1] ELSE "undefined"

\* hydrateSignalFromAsyncIterable for a memo whose id holds an async
\* iterable: the first result seeds the signal the memo reads, then
\* scheduleIteratorConsumption starts consume()
hydrateIterable(yields, sync, n, endSync) ==
  consume([NoIterable EXCEPT !.made = TRUE, !.yields = yields, !.calls = 1,
                             !.firstSync = sync,
                             !.firstValue = firstSyncValue(yields, sync),
                             !.value = firstSyncValue(yields, sync)],
          n, endSync)

\* what the server serialized under a boundary's id
SerializedValues == {"undefined", "null", "Error", "string"}

NoBoundary ==
  [made |-> FALSE, whileHydrating |-> FALSE, has |-> FALSE, value |-> "undefined",
   wrapper |-> FALSE, hydrated |-> FALSE, evals |-> <<>>, fnCalls |-> 0]

\* hydratedCreateErrorBoundary: the throw-once wrapper is installed when the
\* boundary's id has a value other than undefined
hydratedCreateErrorBoundary(isHydrating, has, value) ==
  [made |-> TRUE, whileHydrating |-> isHydrating, has |-> has, value |-> value,
   wrapper |-> isHydrating /\ has /\ value # "undefined",
   hydrated |-> isHydrating /\ has /\ value # "undefined",
   evals |-> <<>>, fnCalls |-> 0]

\* variant of evaluateBoundary: the wrapper never clears its flag
evaluateAlwaysThrows(e, fnThrows) ==
  IF e.wrapper /\ e.hydrated
    THEN [e EXCEPT !.evals = Append(@, "serialized")]
    ELSE [e EXCEPT !.fnCalls = @ + 1,
                   !.evals = Append(@, IF fnThrows THEN "threw" ELSE "returned")]

\* one evaluation, by the core boundary, of the function it was given
evaluateBoundary(e, fnThrows) ==
  IF e.wrapper /\ e.hydrated
    THEN [e EXCEPT !.hydrated = FALSE, !.evals = Append(@, "serialized")]
    ELSE [e EXCEPT !.fnCalls = @ + 1,
                   !.evals = Append(@, IF fnThrows THEN "threw" ELSE "returned")]

\* hydration has not begun and nothing is registered
ClientFresh ==
  /\ hydrating = FALSE
  /\ walking = FALSE
  /\ doneValue = FALSE
  /\ doneWasSet = FALSE
  /\ hydrationDone = FALSE
  /\ pendingBoundaries = 0
  /\ endCallbacks = <<>>
  /\ cmicro = <<>>
  /\ cbs = [c \in HydrationCallbacks |-> NoCallback]
  /\ loadings = [b \in LoadingBoundaries |-> NoLoading]
  /\ eb = NoBoundary
  /\ orphans = [b \in LoadingBoundaries |-> NoOrphan]
  /\ ai = NoIterable

----------------------------------------------------------------------------
(* Actions *)

\* nothing has been rendered: no promise is settled, no memo exists, the
\* boundary has not run
LoadingFresh ==
  /\ dState = [k \in Deferreds |-> "pending"]
  /\ reactions = [k \in Deferreds |-> <<>>]
  /\ microtasks = <<>>
  /\ memos = <<>>
  /\ childCount = 0
  /\ attempt = 0
  /\ phase = "fresh"
  /\ runPromise = NoPromise
  /\ ret = Undefined
  /\ awaitLeft = 0
  /\ awaitResult = NoAwait
  /\ ctxSerialize = "orig"
  /\ serializeBuffer = <<>>
  /\ realLog = <<>>
  /\ committed = <<>>
  /\ transport = <<>>
  /\ outerBuffer = <<>>
  /\ outerBound = FALSE
  /\ registered = 0
  /\ passes = 0
  /\ outer = NoOuter
  /\ doneLog = <<>>
  /\ fragment = NoFragment
  /\ handlerLog = <<>>
  /\ thrown = NoErr
  /\ rejectedAwaited = {}
  /\ lateErrors = <<>>
  /\ currentBoundaryId = NoMarker
  /\ markerLog = {}

\* no memo or projection over an async iterable has been created
StreamFresh ==
  /\ created = FALSE
  /\ comp = [value |-> "undefined", error |-> "none"]
  /\ state = InitialState
  /\ patches = <<>>
  /\ pending = FALSE
  /\ iterCalls = 0
  /\ iterSettled = 0
  /\ nextThens = [k \in 1..(MaxYields + 1) |-> <<>>]
  /\ servedFirst = FALSE
  /\ jobs = <<>>
  /\ consumed = 0
  /\ streamEnded = FALSE
  /\ firstValue = [set |-> FALSE, value |-> "undefined"]
  /\ lastRead = [after |-> FALSE, thrown |-> FALSE, value |-> "undefined"]
  /\ delivered = <<>>

Init ==
  /\ nested = FALSE
  /\ prog \in Programs
  /\ ctxAsync \in BOOLEAN
  /\ hasHandler \in BOOLEAN
  /\ LoadingFresh
  /\ gen = NoGenerator
  /\ StreamFresh
  /\ DraftFresh
  /\ TripFresh
  /\ ServerFresh
  /\ ClientFresh

\* variant of the suspension test that looks at runPromise only
SuspendedThrowOnly(a) == a.runPromise.src # "none"

\* runPromise || ret?.p?.length, after the initial runInitially()
Suspended(a) == a.runPromise.src # "none" \/ (a.ret.def /\ Len(a.ret.p) > 0)

\* the text of props.fallback
FallbackText == "fallback"

\* variant of the async return that hands out the pending template
PendingTemplate(r) == r

\* what the boundary returns in an async context: ctx.ssr of the
\* placeholder template around the escaped fallback, which has no holes
FallbackTemplate(r) ==
  [def |-> TRUE, t |-> <<<<"<template pl>", FallbackText, "<!--pl-->">>>>,
   h |-> <<>>, p |-> <<>>]

\* the value a call of Loading that ended as x returns
ReturnValue(x) ==
  IF x.phase = "returned" THEN x.ret
  ELSE IF x.phase = "fallback"
    THEN [def |-> TRUE, t |-> <<<<FallbackText>>>>, h |-> <<>>, p |-> <<>>]
  ELSE FallbackTemplate(x.ret)

\* Loading(props) of the enclosing boundary, whose children are the call x
\* of this boundary: its runInitially() resolves what x returned, or takes
\* the error x threw.  Where the inner boundary's serializations go is
\* followed by Delivery.
OuterLoading(x, err) ==
  IF err.tag # "none"
    THEN [phase |-> IF hasHandler THEN "returned" ELSE "threw",
          registered |-> 0, ret |-> Undefined]
    ELSE LET r == ReturnValue(x)
         IN IF ~Suspended([runPromise |-> NoPromise, ret |-> r])
              THEN [phase |-> "returned", registered |-> 0, ret |-> r]
            ELSE IF ctxAsync
              THEN [phase |-> "suspended", registered |-> 1, ret |-> r]
            ELSE [phase |-> "fallback", registered |-> 0, ret |-> r]

\* variant of the non-async fallback that writes no marker
SyncFallbackNoMarker(st, bind) == Flush(st)

\* the non-async fallback: flush the buffered serializations, then
\* ctx.serialize(id, "$$f")
SyncFallback(st, bind) == Serialize(Flush(st), bind, Write(-2, "$$f", 0))

\* the calls this step handed to origSerialize
NewWrites == SubSeq(realLog', Len(realLog) + 1, Len(realLog'))

\* Where the calls handed to origSerialize arrive.  A boundary that is not
\* nested captured the transport's serializer.  A nested boundary captured,
\* at `const origSerialize = ctx.serialize`, the buffering closure of the
\* enclosing boundary, which pushes to the enclosing serializeBuffer; the
\* enclosing boundary flushes that buffer once, when its own call returns.
\*   "loading": the synchronous call, inside the enclosing runInitially
\*   "render":  a re-render, whose runInitially leaves ctx.serialize bound
\*              to origSerialize, followed by the flush through origSerialize
\*   "direct":  ctx.serialize as it is bound when a retry or a hole calls it
Delivery(kind) ==
  IF ~nested
    THEN /\ transport' = transport \o NewWrites
         /\ UNCHANGED <<outerBuffer, outerBound>>
  ELSE IF kind = "loading"
    THEN IF outer'.phase = "threw"
           THEN /\ outerBuffer' = outerBuffer \o NewWrites
                /\ outerBound' = TRUE
                /\ UNCHANGED transport
           ELSE /\ transport' = transport \o outerBuffer \o NewWrites
                /\ outerBuffer' = <<>>
                /\ outerBound' = FALSE
  ELSE IF kind = "render"
    THEN /\ outerBuffer' = outerBuffer \o NewWrites
         /\ outerBound' = IF attempt' # attempt /\ ctxSerialize' = "orig"
                            THEN TRUE ELSE outerBound
         /\ UNCHANGED transport
  ELSE IF outerBound
    THEN /\ outerBuffer' = outerBuffer \o NewWrites
         /\ UNCHANGED <<transport, outerBound>>
    ELSE /\ transport' = transport \o NewWrites
         /\ UNCHANGED <<outerBuffer, outerBound>>

\* The synchronous call Loading(props) with a HydrationContext installed,
\* up to its return (or throw); in async mode this includes the async IIFE
\* up to its first await.
Loading ==
  /\ phase = "fresh"
  /\ \E a \in {runInitially(Cur, 1, NoPromise)} :
       LET suspended == Suspended(a)
           x == IF a.thrown.tag # "none"
                  THEN Step(a.st, "threw", a.ret, a.runPromise, 0, NoAwait,
                            a.cc, FALSE, NoCall)
                ELSE IF ~suspended
                  THEN Step(Flush(a.st), "returned", a.ret, a.runPromise, 0,
                            NoAwait, a.cc, FALSE, NoCall)
                ELSE IF ctxAsync
                  THEN RenderLoop(a.st, a.ret, a.runPromise, a.cc)
                ELSE Step(SyncFallback(a.st, a.bind), "fallback", a.ret,
                          a.runPromise, 0, NoAwait, a.cc, FALSE, NoCall)
       IN /\ attempt' = 1
          /\ ctxSerialize' = a.bind
          /\ thrown' = a.thrown
          /\ registered' = IF a.thrown.tag = "none" /\ suspended /\ ctxAsync
                             THEN registered + 1 ELSE registered
          /\ outer' = IF nested THEN OuterLoading(x, a.thrown) ELSE NoOuter
          /\ \E m \in {markedRun("initial",
                                 IF nested THEN OuterId ELSE currentBoundaryId,
                                 a.thrown.tag # "none")} :
               /\ markerLog' = markerLog \cup {m}
               /\ currentBoundaryId' =
                    IF nested /\ a.thrown.tag = "none"
                      THEN currentBoundaryId ELSE m.after
          /\ \E y \in {x} : Commit(y)
  /\ Delivery("loading")
  /\ UNCHANGED nonLoading
  /\ UNCHANGED <<prog, ctxAsync, hasHandler, dState, passes, nested,
                 rejectedAwaited, lateErrors>>

\* deferred k is an element of the Promise.all the IIFE is waiting on
Awaits(k) == \E i \in 1..Len(ret.p) : ret.p[i] = [src |-> "d", k |-> k]

\* The environment settles deferred k; its reactions are queued in the order
\* they were registered.
Settle(k, outcome) ==
  /\ dState[k] = "pending"
  /\ dState' = [dState EXCEPT ![k] = outcome]
  /\ microtasks' = microtasks \o reactions[k]
  /\ reactions' = [reactions EXCEPT ![k] = <<>>]
  /\ rejectedAwaited' =
       IF outcome = "rejected" /\ phase = "awaitHoles" /\ Awaits(k)
         THEN rejectedAwaited \cup {k}
         ELSE rejectedAwaited
  /\ UNCHANGED nonLoading
  /\ UNCHANGED <<prog, ctxAsync, hasHandler, memos, childCount, attempt, phase,
                 runPromise, ret, awaitLeft, awaitResult, ctxSerialize,
                 serializeBuffer, realLog, committed, transport, outerBuffer,
                 outerBound, registered, passes, nested, outer,
                 doneLog, fragment,
                 handlerLog, thrown, lateErrors, currentBoundaryId, markerLog>>

Task == microtasks[1]

HeadIs(type) == microtasks # <<>> /\ Task.type = type

\* processResult's reaction on the promise a memo's compute returned
MemoThen ==
  /\ HeadIs("memoThen")
  /\ microtasks' = Tail(microtasks)
  /\ memos' = IF dState[Task.k] = "fulfilled"
                THEN [memos EXCEPT ![Task.g].value = Val(Task.k),
                                   ![Task.g].error = NoErr]
                ELSE memos
  /\ UNCHANGED nonLoading
  /\ UNCHANGED <<prog, ctxAsync, hasHandler, dState, reactions, childCount,
                 attempt, phase, runPromise, ret, awaitLeft, awaitResult,
                 ctxSerialize, serializeBuffer, realLog, committed, transport, outerBuffer,
                 outerBound, registered, passes, nested, outer,
                 doneLog,
                 fragment, handlerLog, thrown, rejectedAwaited, lateErrors,
                 currentBoundaryId, markerLog>>

\* processResult's reaction on the first next() of an async iterable
\* (firstReady): a rejected first next() is swallowed
FirstReady ==
  /\ HeadIs("firstReady")
  /\ microtasks' = Tail(microtasks)
  /\ memos' = IF dState[Task.k] = "fulfilled"
                THEN [memos EXCEPT ![Task.g].value = Val(Task.k),
                                   ![Task.g].error = NoErr]
                ELSE memos
  /\ UNCHANGED nonLoading
  /\ UNCHANGED <<prog, ctxAsync, hasHandler, dState, reactions, childCount,
                 attempt, phase, runPromise, ret, awaitLeft, awaitResult,
                 ctxSerialize, serializeBuffer, realLog, committed, transport, outerBuffer,
                 outerBound, registered, passes, nested, outer,
                 doneLog,
                 fragment, handlerLog, thrown, rejectedAwaited, lateErrors,
                 currentBoundaryId, markerLog>>

\* source.then(() => update()): the retry a memo chained on the promise it
\* suspended on
MemoRetry ==
  /\ HeadIs("memoRetry")
  /\ \E s0 \in {[Cur EXCEPT !.microtasks = Tail(microtasks)]} :
     \E s1 \in {IF PromiseState([src |-> Task.src, k |-> Task.k]) = "fulfilled"
                   THEN update(s0, ctxSerialize, Task.g)
                   ELSE s0} :
        /\ memos' = s1.memos
        /\ reactions' = s1.reactions
        /\ microtasks' = s1.microtasks
        /\ serializeBuffer' = s1.buffer
        /\ realLog' = s1.real
        /\ handlerLog' = s1.handled
  /\ Delivery("direct")
  /\ UNCHANGED nonLoading
  /\ UNCHANGED <<prog, ctxAsync, hasHandler, dState, childCount, attempt, phase,
                 runPromise, ret, awaitLeft, awaitResult, ctxSerialize, committed,
                 registered, passes, nested, outer,
                 doneLog, fragment, thrown, rejectedAwaited,
                 lateErrors, currentBoundaryId, markerLog>>

\* Promise.all's reaction on one of its elements
AllElement ==
  /\ HeadIs("allElem")
  /\ LET rejected == PromiseState([src |-> Task.src, k |-> Task.k]) = "rejected"
         decided == awaitResult.state # "pending"
         last == awaitLeft = 1
     IN /\ awaitResult' =
             IF decided THEN awaitResult
             ELSE IF rejected THEN [state |-> "rej", err |-> RejErr(Task.k)]
             ELSE IF last THEN [state |-> "ok", err |-> NoErr]
             ELSE awaitResult
        /\ awaitLeft' = IF decided \/ rejected THEN awaitLeft ELSE awaitLeft - 1
        /\ microtasks' =
             IF ~decided /\ (rejected \/ last)
               THEN Append(Tail(microtasks), Reaction("iife", 0, "none", 0))
               ELSE Tail(microtasks)
  /\ UNCHANGED nonLoading
  /\ UNCHANGED <<prog, ctxAsync, hasHandler, dState, reactions, memos,
                 childCount, attempt, phase, runPromise, ret, ctxSerialize,
                 serializeBuffer, realLog, committed, transport, outerBuffer,
                 outerBound, registered, passes, nested, outer,
                 doneLog, fragment,
                 handlerLog, thrown, rejectedAwaited, lateErrors,
                 currentBoundaryId, markerLog>>

\* the errors a piece of children code passed to the handler
NewlyHandled(st) == SubSeq(st.handled, Len(handlerLog) + 1, Len(st.handled))

ErrSeq(e) == IF e.tag = "none" THEN <<>> ELSE <<e>>

\* The IIFE continues after `await runPromise`: re-render the children.
ResumeRender ==
  /\ HeadIs("iife")
  /\ phase = "awaitRender"
  /\ attempt < MaxAttempts
  /\ \E s0 \in {[Cur EXCEPT !.microtasks = Tail(microtasks)]} :
       IF PromiseState(runPromise) = "rejected"
         THEN /\ \E y \in {Caught(s0, ret, runPromise, childCount,
                                  RejErr(runPromise.k))} : Commit(y)
              /\ UNCHANGED <<attempt, ctxSerialize, lateErrors,
                             currentBoundaryId, markerLog>>
         ELSE \E a \in {runInitially(s0, attempt + 1, NoPromise)} :
              /\ attempt' = attempt + 1
              /\ ctxSerialize' = a.bind
              /\ lateErrors' = lateErrors \o NewlyHandled(a.st) \o ErrSeq(a.thrown)
              /\ \E m \in {markedRun("rerender", currentBoundaryId,
                                     a.thrown.tag # "none")} :
                   /\ markerLog' = markerLog \cup {m}
                   /\ currentBoundaryId' = m.after
              /\ \E y \in {IF a.thrown.tag # "none"
                              THEN Caught(a.st, a.ret, NoPromise, a.cc, a.thrown)
                              ELSE RenderLoop(a.st, a.ret, a.runPromise, a.cc)} :
                   Commit(y)
  /\ Delivery("render")
  /\ UNCHANGED nonLoading
  /\ UNCHANGED <<prog, ctxAsync, hasHandler, dState, registered, passes, nested, outer, thrown,
                 rejectedAwaited>>

\* The IIFE continues after `await Promise.all(ret.p)`: re-execute the holes.
ResumeHoles ==
  /\ HeadIs("iife")
  /\ phase = "awaitHoles"
  /\ \E s0 \in {[Cur EXCEPT !.microtasks = Tail(microtasks)]} :
       IF awaitResult.state = "rej"
         THEN /\ \E y \in {Caught(s0, ret, NoPromise, childCount,
                                  awaitResult.err)} : Commit(y)
              /\ UNCHANGED <<lateErrors, passes, currentBoundaryId, markerLog>>
         ELSE \E r \in {ssr(s0, ctxSerialize, attempt, ret.t, ret.h)} :
              /\ lateErrors' = lateErrors \o NewlyHandled(r.st) \o ErrSeq(r.err)
              /\ markerLog' = markerLog \cup {holePass(currentBoundaryId)}
              /\ UNCHANGED currentBoundaryId
              /\ passes' = IF passes < MaxPasses THEN passes + 1 ELSE passes
              /\ \E y \in {IF r.err.tag # "none"
                              THEN Caught(r.st, ret, NoPromise, childCount, r.err)
                              ELSE NextPass(r.st,
                                            [def |-> TRUE, t |-> r.t, h |-> r.h,
                                             p |-> r.p],
                                            childCount)} :
                   Commit(y)
  /\ Delivery("direct")
  /\ UNCHANGED nonLoading
  /\ UNCHANGED <<prog, ctxAsync, hasHandler, dState, attempt, ctxSerialize,
                 registered, nested, outer, thrown, rejectedAwaited>>

\* the boundary is rendered as the children of another Loading boundary
InitNested ==
  /\ nested = TRUE
  /\ prog \in Programs
  /\ ctxAsync \in BOOLEAN
  /\ hasHandler \in BOOLEAN
  /\ LoadingFresh
  /\ gen = NoGenerator
  /\ StreamFresh
  /\ DraftFresh
  /\ TripFresh
  /\ ServerFresh
  /\ ClientFresh

Next ==
  \/ Loading
  \/ \E k \in Deferreds, outcome \in {"fulfilled", "rejected"} : Settle(k, outcome)
  \/ MemoThen
  \/ FirstReady
  \/ MemoRetry
  \/ AllElement
  \/ ResumeRender
  \/ ResumeHoles

Spec == Init /\ [][Next]_vars

\* The event loop drains the microtask queue (one reaction at a time, the
\* head of the queue), and the call of Loading that the render started runs
\* to its return.
Microtask ==
  MemoThen \/ FirstReady \/ MemoRetry \/ AllElement \/ ResumeRender \/ ResumeHoles

FairSpec == Spec /\ WF_vars(Loading) /\ WF_vars(Microtask)

SpecNested == InitNested /\ [][Next]_vars

----------------------------------------------------------------------------
(* Server memo over an async iterable: processResult, default ssrSource    *)

\* no Loading boundary is rendered: its children program is never run
LoadingIdle == nested = FALSE /\ prog = CHOOSE p \in Programs : TRUE

\* createMemo(compute, init) whose compute returns the generator: update()
\* calls processResult, which starts the first iteration, chains firstReady
\* on it and marks an uninitialized memo as not ready
CreateMemoIter ==
  /\ ~created
  /\ created' = TRUE
  /\ iterCalls' = 1
  /\ nextThens' = [nextThens EXCEPT ![1] = <<"firstReady">>]
  /\ comp' = [value |-> gen.init,
              error |-> IF gen.init = "undefined" THEN "NotReady" ELSE "none"]
  /\ UNCHANGED <<delivered, gen, state, patches, pending, iterSettled, servedFirst, jobs,
                 consumed, streamEnded, firstValue, lastRead>>
  /\ UNCHANGED nonStream

\* one write through the deep proxy: the set trap records a patch and
\* writes through to the store (Array.prototype.push sets the index, then
\* length)
DraftWrite(s, m, k) ==
  IF m = "name"
    THEN [state |-> [s.state EXCEPT !.name = Written(k)],
          patches |-> Append(s.patches, [path |-> <<"name">>, value |-> Written(k)])]
  ELSE IF m = "user.name"
    THEN [state |-> [s.state EXCEPT !.user.name = Written(k)],
          patches |-> Append(s.patches,
                             [path |-> <<"user", "name">>, value |-> Written(k)])]
  ELSE [state |-> [s.state EXCEPT !.items = Append(@, Written(k))],
        patches |-> s.patches \o
          <<[path |-> <<"items", ToString(Len(s.state.items))>>,
             value |-> Written(k)],
            [path |-> <<"items", "length">>,
             value |-> ToString(Len(s.state.items) + 1)]>>]

RECURSIVE RunSegment(_, _, _)
\* the draft mutations of segment k, from the i-th on
RunSegment(s, k, i) ==
  IF i > Len(gen.segs[k].muts) THEN s
  ELSE RunSegment(DraftWrite(s, gen.segs[k].muts[i], k), k, i + 1)

Store == [state |-> state, patches |-> patches]

\* iter.next() resumes the generator, which runs up to its next await or
\* yield: a segment that does not await makes its mutations right away
CallNext(s, k) ==
  IF k <= Len(gen.segs) /\ ~gen.segs[k].awaits THEN RunSegment(s, k, 1) ELSE s

\* The generator reaches the yield (or the end) that answers the oldest
\* pending iter.next(): a segment that awaited makes its mutations first;
\* the promise settles and its reactions are queued in registration order.
GenYield ==
  /\ created
  /\ iterSettled < iterCalls
  /\ LET k == iterSettled + 1
         s == IF k <= Len(gen.segs) /\ gen.segs[k].awaits
                THEN RunSegment(Store, k, 1) ELSE Store
     IN /\ state' = s.state
        /\ patches' = s.patches
        /\ iterSettled' = k
        /\ jobs' = jobs \o [i \in 1..Len(nextThens[k]) |->
                             [cb |-> nextThens[k][i], call |-> k, eager |-> FALSE]]
        /\ nextThens' = [nextThens EXCEPT ![k] = <<>>]
  /\ UNCHANGED <<delivered, gen, created, comp, pending, iterCalls, servedFirst, consumed,
                 streamEnded, firstValue, lastRead>>
  /\ UNCHANGED nonStream

\* tapped.next() calls made so far
Pulls == IF servedFirst THEN iterCalls ELSE 0

\* variant of the tapped wrapper that never replays firstNext: every call
\* is a new iter.next()
TappedCallFresh(served, calls) == calls + 1

\* the iter.next() call whose result a tapped.next() resolves to: firstNext
\* for the first call, a new iter.next() for every later one
TappedCall(served, calls) == IF ~served THEN 1 ELSE calls + 1

\* The consumer of the serialized iterable calls next() on the memo's
\* tapped wrapper, after it received the result of its previous call: the
\* first call chains on firstNext, later calls on a new iter.next().
MemoTappedNext ==
  /\ created
  /\ ~streamEnded
  /\ consumed = Pulls
  /\ \E k \in {TappedCall(servedFirst, iterCalls)} :
       /\ servedFirst' = TRUE
       /\ iterCalls' = IF k > iterCalls THEN k ELSE iterCalls
       /\ IF iterSettled >= k
            THEN /\ jobs' = Append(jobs, [cb |-> "tapped", call |-> k,
                                            eager |-> TRUE])
                 /\ UNCHANGED nextThens
            ELSE /\ nextThens' = [nextThens EXCEPT ![k] = Append(@, "tapped")]
                 /\ UNCHANGED jobs
  /\ UNCHANGED <<delivered, gen, created, comp, state, patches, pending, iterSettled,
                 consumed, streamEnded, firstValue, lastRead>>
  /\ UNCHANGED nonStream

\* A reaction of a settled iter.next() runs: firstReady stores the value
\* and clears the error; the tapped wrapper's reactions store the value of
\* every result that is not done.  A rejection runs neither.
MemoJob ==
  /\ jobs # <<>>
  /\ LET j == jobs[1]
         r == NextResult(j.call)
         yielded == r.ok /\ ~r.done
     IN /\ comp' = IF ~yielded THEN comp
                   ELSE IF j.cb = "firstReady"
                     THEN [value |-> r.value, error |-> "none"]
                   ELSE [comp EXCEPT !.value = r.value]
        /\ firstValue' = IF yielded /\ ~firstValue.set
                           THEN [set |-> TRUE, value |-> r.value]
                           ELSE firstValue
        /\ consumed' = IF j.cb = "tapped" THEN consumed + 1 ELSE consumed
        /\ streamEnded' = (streamEnded \/ (j.cb = "tapped" /\ ~yielded))
        /\ delivered' = IF j.cb = "tapped"
                          THEN Append(delivered, [result |-> r, eager |-> j.eager])
                          ELSE delivered
  /\ jobs' = Tail(jobs)
  /\ UNCHANGED <<gen, created, state, patches, pending, iterCalls, iterSettled,
                 nextThens, servedFirst, lastRead>>
  /\ UNCHANGED nonStream

\* the memo accessor: throws comp.error when set, else returns comp.value
MemoRead ==
  /\ created
  /\ lastRead' = [after |-> firstValue.set, thrown |-> comp.error # "none",
                  value |-> comp.value]
  /\ UNCHANGED <<delivered, gen, created, comp, state, patches, pending, iterCalls,
                 iterSettled, nextThens, servedFirst, jobs, consumed,
                 streamEnded, firstValue>>
  /\ UNCHANGED nonStream

InitMemo ==
  /\ LoadingIdle
  /\ ctxAsync = TRUE
  /\ hasHandler = FALSE
  /\ LoadingFresh
  /\ gen \in MemoGenerators
  /\ StreamFresh
  /\ DraftFresh
  /\ TripFresh
  /\ ServerFresh
  /\ ClientFresh

NextMemo ==
  \/ CreateMemoIter
  \/ GenYield
  \/ MemoTappedNext
  \/ MemoJob
  \/ MemoRead

SpecMemo == InitMemo /\ [][NextMemo]_vars

----------------------------------------------------------------------------
(* Server projection over an async generator: createProjection, streaming  *)

\* Object.assign(state, r.value) for the object segment k yields
Assign(st, k) == [st EXCEPT !.name = "y" \o ToString(k)]

\* createProjection(fn, initialValue): the draft is a deep proxy of the
\* store; the first iteration is started, firstReady chained on it, and
\* the store is returned behind a pending proxy
CreateProjection ==
  /\ ~created
  /\ created' = TRUE
  /\ LET s == CallNext(Store, 1)
     IN /\ state' = s.state
        /\ patches' = s.patches
  /\ iterCalls' = 1
  /\ nextThens' = [nextThens EXCEPT ![1] = <<"firstReady">>]
  /\ pending' = TRUE
  /\ UNCHANGED <<delivered, gen, comp, iterSettled, servedFirst, jobs, consumed,
                 streamEnded, firstValue, lastRead>>
  /\ UNCHANGED nonStream

\* The consumer calls next() on the projection's tapped wrapper: the first
\* call chains on firstNext, later calls on a new iter.next(), which
\* resumes the generator.
ProjTappedNext ==
  /\ created
  /\ ~streamEnded
  /\ consumed = Pulls
  /\ IF ~servedFirst
       THEN /\ servedFirst' = TRUE
            /\ IF iterSettled >= 1
                 THEN /\ jobs' = Append(jobs, [cb |-> "tapped", call |-> 1,
                                                 eager |-> TRUE])
                      /\ UNCHANGED nextThens
                 ELSE /\ nextThens' = [nextThens EXCEPT ![1] = Append(@, "tapped")]
                      /\ UNCHANGED jobs
            /\ UNCHANGED <<iterCalls, state, patches>>
       ELSE /\ iterCalls' = iterCalls + 1
            /\ nextThens' = [nextThens EXCEPT ![iterCalls + 1] = <<"tapped">>]
            /\ LET s == CallNext(Store, iterCalls + 1)
               IN /\ state' = s.state
                  /\ patches' = s.patches
            /\ UNCHANGED <<servedFirst, jobs>>
  /\ UNCHANGED <<delivered, gen, created, comp, pending, iterSettled, consumed,
                 streamEnded, firstValue, lastRead>>
  /\ UNCHANGED nonStream

\* variant of firstReady that leaves the patch list as it is
firstReadyKeepsPatches(ps, ok) == ps

\* firstReady's `patches.length = 0` (its rejection handler only marks ready)
firstReadyPatches(ps, ok) == IF ok THEN <<>> ELSE ps

\* A reaction of a settled iter.next() runs.  firstReady empties the patch
\* list, assigns a yielded object and marks the store ready (a rejection
\* marks it ready too).  The tapped wrapper's first reaction returns the
\* store itself; its later reactions take the patches and assign a yielded
\* object.
ProjJob ==
  /\ jobs # <<>>
  /\ LET j == jobs[1]
         r == NextResult(j.call)
         yielded == r.ok /\ ~r.done
         assigned == IF yielded /\ r.value = "obj" THEN Assign(state, j.call)
                     ELSE state
     IN IF j.cb = "firstReady"
          THEN /\ patches' = firstReadyPatches(patches, r.ok)
               /\ state' = assigned
               /\ pending' = FALSE
               /\ firstValue' = IF yielded THEN [set |-> TRUE, value |-> assigned]
                                ELSE firstValue
               /\ UNCHANGED <<consumed, streamEnded, delivered>>
          ELSE /\ patches' = IF j.call > 1 /\ r.ok THEN <<>> ELSE patches
               /\ state' = IF j.call > 1 THEN assigned ELSE state
               /\ consumed' = consumed + 1
               /\ streamEnded' = ~yielded
               /\ delivered' =
                    Append(delivered,
                           [ok |-> r.ok, done |-> r.done,
                            state |-> IF yielded /\ j.call = 1 THEN state
                                      ELSE InitialState,
                            batch |-> IF yielded /\ j.call > 1 THEN patches
                                      ELSE <<>>])
               /\ UNCHANGED <<pending, firstValue>>
  /\ jobs' = Tail(jobs)
  /\ UNCHANGED <<gen, created, comp, iterCalls, iterSettled, nextThens,
                 servedFirst, lastRead>>
  /\ UNCHANGED nonStream

\* a server read of the returned store: the pending proxy throws
\* NotReadyError while pending, else the read reaches the store
ProjRead ==
  /\ created
  /\ lastRead' = [after |-> firstValue.set, thrown |-> pending, value |-> state]
  /\ UNCHANGED <<delivered, gen, created, comp, state, patches, pending, iterCalls,
                 iterSettled, nextThens, servedFirst, jobs, consumed,
                 streamEnded, firstValue>>
  /\ UNCHANGED nonStream

InitProjection ==
  /\ LoadingIdle
  /\ ctxAsync = TRUE
  /\ hasHandler = FALSE
  /\ LoadingFresh
  /\ gen \in ProjectionGenerators
  /\ StreamFresh
  /\ DraftFresh
  /\ TripFresh
  /\ ServerFresh
  /\ ClientFresh

NextProjection ==
  \/ CreateProjection
  \/ GenYield
  \/ ProjTappedNext
  \/ ProjJob
  \/ ProjRead

SpecProjection == InitProjection /\ [][NextProjection]_vars

----------------------------------------------------------------------------
(* Draft mutations through the deep patch proxy *)

Proxy == [g |-> target, patches |-> emitted]

Items == target.heap[target.root.items].elems

CanMutate == Len(emitted) < MaxPatches

Mutated(s) ==
  /\ target' = s.g
  /\ emitted' = s.patches
  /\ UNCHANGED <<base, spliced>>
  /\ UNCHANGED nonDraft

\* draft.name = v, draft.user.name = v
SetProperty ==
  /\ CanMutate
  /\ \E basePath \in {<<>>, <<"user">>}, v \in DraftValues :
       Mutated(setTrap(Proxy, basePath, "name", Prim(v)))

\* delete draft.name, delete draft.user.name
DeleteProperty ==
  /\ CanMutate
  /\ \E basePath \in {<<>>, <<"user">>} :
       Mutated(deletePropertyTrap(Proxy, basePath, "name"))

\* draft.user = {name: v}, draft.items = [...]
SetObject ==
  /\ CanMutate
  /\ \E key \in {"user", "items"}, v \in DraftValues, n \in 0..2 :
       LET obj == IF key = "user" THEN PlainObj(v) ELSE ArrayObj([i \in 1..n |-> v])
           s == [g |-> Alloc(target, obj), patches |-> emitted]
       IN Mutated(setTrap(s, <<>>, key, Ref(Len(target.heap) + 1)))

\* draft.items[i] = v, draft.items.length = n
SetElement ==
  /\ CanMutate
  /\ \/ \E i \in 0..(MaxArrayLen - 1), v \in DraftValues :
          Mutated(setTrap(Proxy, <<"items">>, ToString(i), Prim(v)))
     \/ \E n \in 0..MaxArrayLen :
          Mutated(setTrap(Proxy, <<"items">>, "length", Prim(ToString(n))))

\* delete draft.items[i]
DeleteElement ==
  /\ CanMutate
  /\ \E i \in 0..(Len(Items) - 1) :
       Mutated(deletePropertyTrap(Proxy, <<"items">>, ToString(i)))

\* draft.items.push(v)
Push ==
  /\ CanMutate
  /\ Len(Items) < MaxArrayLen
  /\ \E v \in DraftValues : Mutated(push(Proxy, <<"items">>, v))

\* draft.items.pop()
Pop ==
  /\ CanMutate
  /\ Mutated(pop(Proxy, <<"items">>))

\* draft.items.shift()
Shift ==
  /\ CanMutate
  /\ Mutated(shift(Proxy, <<"items">>))

\* draft.items.unshift(...items)
Unshift ==
  /\ CanMutate
  /\ \E items \in SeqsUpTo(DraftValues, 2) :
       /\ Len(Items) + Len(items) <= MaxArrayLen
       /\ Mutated(unshift(Proxy, <<"items">>, items))

\* draft.items.splice(start, deleteCount, ...items)
Splice ==
  /\ CanMutate
  /\ \E start \in (0 - 2)..MaxArrayLen, given \in BOOLEAN,
        deleteCount \in (0 - 1)..MaxArrayLen, items \in SeqsUpTo(DraftValues, 1) :
       /\ ~given => deleteCount = 0
       /\ Len(Items) + Len(items) <= MaxArrayLen
       /\ Mutated(splice(Proxy, <<"items">>, start, given, deleteCount, items))

InitPatch ==
  /\ LoadingIdle
  /\ ctxAsync = TRUE
  /\ hasHandler = FALSE
  /\ LoadingFresh
  /\ gen = NoGenerator
  /\ StreamFresh
  /\ target \in {Graph("", elems, "") : elems \in SeqsUpTo(DraftValues, 2)}
  /\ emitted = <<>>
  /\ base = target
  /\ spliced = NoSplice
  /\ TripFresh
  /\ ServerFresh
  /\ ClientFresh

NextPatch ==
  \/ SetProperty
  \/ DeleteProperty
  \/ SetObject
  \/ SetElement
  \/ DeleteElement
  \/ Push
  \/ Pop
  \/ Shift
  \/ Unshift
  \/ Splice

SpecPatch == InitPatch /\ [][NextPatch]_vars

----------------------------------------------------------------------------
(* Round trip: server creation, settlement, hydration *)

\* the primitive is created during the server render
ServerCreate ==
  /\ server = NoComp
  /\ server' = IF trip.prim = "memo"
                 THEN TripCreateMemo(ComputeResult(trip, "server"), trip.init,
                                     trip.ssrSource)
                 ELSE TripCreateSignal(trip)
  /\ UNCHANGED <<trip, arrived, client>>
  /\ UNCHANGED nonTrip

\* the Promise the compute returned fulfils (the first next() settles)
ServerSettle ==
  /\ server.wire # "none"
  /\ ~server.settled
  /\ server' = TripSettled(trip, server)
  /\ UNCHANGED <<trip, arrived, client>>
  /\ UNCHANGED nonTrip

\* the client hydrates the primitive from what has arrived by then
ClientHydrate ==
  /\ server # NoComp
  /\ ~client.hydrated
  /\ \E data \in Arrivals(trip, server) :
       /\ arrived' = data
       /\ client' = hydratedCreate(trip, data)
  /\ UNCHANGED <<trip, server>>
  /\ UNCHANGED nonTrip

\* the Promise the client's compute returned settles: a serialized Promise
\* settles after the server's
ClientSettle ==
  /\ client.pending
  /\ arrived.has => server.settled
  /\ client' = Ready(client.next)
  /\ UNCHANGED <<trip, server, arrived>>
  /\ UNCHANGED nonTrip

InitTrip ==
  /\ LoadingIdle
  /\ ctxAsync = TRUE
  /\ hasHandler = FALSE
  /\ LoadingFresh
  /\ gen = NoGenerator
  /\ StreamFresh
  /\ DraftFresh
  /\ ServerFresh
  /\ ClientFresh
  /\ trip \in Trips
  /\ server = NoComp
  /\ arrived = NoData
  /\ client = NoClient

NextTrip ==
  \/ ServerCreate
  \/ ServerSettle
  \/ ClientHydrate
  \/ ClientSettle

SpecTrip == InitTrip /\ [][NextTrip]_vars

----------------------------------------------------------------------------
(* Properties of the Loading boundary *)

AllSettled == \A k \in Deferreds : dState[k] # "pending"

\* the memos of the last attempt that the holes of the template read
HoleMemos ==
  UNION {{G(attempt, prog.holes[h].chain[j]) : j \in 1..Len(prog.holes[h].chain)} :
           h \in 1..Len(prog.holes)}

RECURSIVE ExpectedHtml(_)
\* the children's HTML with every hole that returns replaced by the values
\* of the memos it reads, built from the program and the memos alone
ExpectedHtml(h) ==
  IF h = 0 THEN <<"s0">>
  ELSE ExpectedHtml(h - 1)
       \o (IF prog.holes[h].throws THEN <<>>
           ELSE [j \in 1..Len(prog.holes[h].chain) |->
                   memos[G(attempt, prog.holes[h].chain[j])].value])
       \o <<"s" \o ToString(h)>>

C2_Original ==
  \A k \in rejectedAwaited :
    phase = "done" => doneLog = <<DoneCall(FALSE, <<>>, RejErr(k))>>

\* the promises in the list the last Promise.all awaited that have rejected
RejectedInList ==
  {k \in Deferreds : dState[k] = "rejected" /\ Awaits(k)}

\* C2 (amended): once a promise rejects while the boundary's Promise.all
\* awaits it, done is never called with HTML, the IIFE ends, and the one
\* done call made is done(undefined, e') with e' the rejection reason of
\* one of the awaited promises that rejected.
C2_RejectionReported ==
  /\ [](rejectedAwaited # {} =>
          /\ \A i \in 1..Len(doneLog) : ~doneLog[i].hasHtml
          /\ phase = "done" =>
               \E k \in RejectedInList : doneLog = <<DoneCall(FALSE, <<>>, RejErr(k))>>)
  /\ (rejectedAwaited # {}) ~> (phase = "done" /\ Len(doneLog) = 1)

\* a rejection of an awaited promise has been reported
C2_Witness ==
  /\ rejectedAwaited # {}
  /\ phase = "done"
  /\ doneLog = <<DoneCall(FALSE, <<>>, fragment.err)>>
  /\ fragment.err.tag = "rej"

\* C3 as stated: every error thrown by a re-render or a hole re-execution
\* after the fragment was registered is the error done reports.
C3_Original ==
  \A i \in 1..Len(lateErrors) :
    phase = "done" => doneLog = <<DoneCall(FALSE, <<>>, lateErrors[i])>>

\* C4: when done is called with HTML no memo read by a hole still carries a
\* NotReadyError, and the HTML is the template with every hole replaced by
\* the content it resolves to.
C4_DoneOnlyWhenResolved ==
  \A i \in 1..Len(doneLog) :
    doneLog[i].hasHtml =>
      /\ \A g \in HoleMemos : memos[g].error.tag = "none"
      /\ handlerLog = <<>> => doneLog[i].html = ExpectedHtml(Len(prog.holes))

\* a pass re-executed a hole whose first memo had resolved and found its
\* second memo pending: the boundary waits again and done was not called
C4_Witness ==
  /\ phase = "awaitHoles"
  /\ prog.holes = <<HoleSpec(<<1, 2>>, FALSE)>>
  /\ ret.p = <<[src |-> "d", k |-> 2]>>
  /\ memos[G(attempt, 1)].error.tag = "none"
  /\ doneLog = <<>>

\* C5 as stated: once every promise has settled, a boundary that is in its
\* hole loop ends the loop and calls done.
C5_HoleLoopTerminates ==
  (AllSettled /\ phase = "awaitHoles") ~> (phase = "done")

\* C6 as stated: every call that reached the real serializer on behalf of
\* the children was issued by a primitive of the last attempt.
C6_NoLeakFromDiscardedAttempt ==
  \A i \in 1..Len(realLog) : realLog[i].att \in {0, attempt}

\* C7 as stated: whenever no attempt is running, ctx.serialize is the
\* function that was bound before the boundary rebound it.
C7_SerializeRestored == ctxSerialize = "orig"

\* C8: every memo of a re-render attempt has the owner id that the memo at
\* the same position had in the first attempt.
C8_IdsStableAcrossRerender ==
  \A g \in 1..Len(memos) : memos[g].id = memos[G(1, memos[g].idx)].id

\* the children were rendered a second time
C8_Witness == attempt >= 2 /\ Len(memos) = 2 * NMemos

----------------------------------------------------------------------------
(* Properties of memos and projections over async iterables *)

\* C9 as stated: once the first yielded value V1 has been stored, every
\* read of the memo returns V1, however many values the tapped iterable
\* has delivered since.
C9_ReadsStayAtFirstValue ==
  lastRead.after => (~lastRead.thrown /\ lastRead.value = firstValue.value)

\* C10 as stated: after the first yield every server read of the
\* projection's store returns, at every depth, the state as of the first
\* yield.
C10_ReadsSeeFirstYieldState ==
  lastRead.after =>
    /\ ~lastRead.thrown
    /\ lastRead.value.name = firstValue.value.name
    /\ lastRead.value.items = firstValue.value.items
    /\ lastRead.value.user.name = firstValue.value.user.name

\* the state at the generator's first yield, from the generator alone
ExpectedFirstState ==
  LET s == RunSegment([state |-> InitialState, patches |-> <<>>], 1, 1).state
  IN IF gen.segs[1].value = "obj" THEN Assign(s, 1) ELSE s

IsMutationPatch(p) == p.path # <<"items", "length">>

\* the draft mutation that recorded patch p
MutationOf(p) ==
  IF p.path = <<"name">> THEN "name"
  ELSE IF p.path = <<"user", "name">> THEN "user.name"
  ELSE "items.push"

\* the draft mutations a patch batch records, in order
BatchMutations(batch) ==
  LET ps == SelectSeq(batch, IsMutationPatch)
  IN [i \in 1..Len(ps) |-> MutationOf(ps[i])]

\* C12: the projection's tapped iterable yields first the full state as of
\* the generator's first yield (without patches), and for every later yield
\* k exactly the patches of the draft mutations made between yield k-1 and
\* yield k: each mutation of that segment once, in order, carrying the
\* value that segment wrote, and no mutation of another segment.
C12_StateThenPatchBatches ==
  \A i \in 1..Len(delivered) :
    (delivered[i].ok /\ ~delivered[i].done) =>
      IF i = 1
        THEN delivered[i].state = ExpectedFirstState /\ delivered[i].batch = <<>>
        ELSE /\ BatchMutations(delivered[i].batch) = gen.segs[i].muts
             /\ \A j \in 1..Len(delivered[i].batch) :
                  IsMutationPatch(delivered[i].batch[j]) =>
                    delivered[i].batch[j].value = Written(i)

\* the generator mutated the draft before its first yield and again before
\* its second yield, and the consumer received the second yield's batch
C12_Witness ==
  /\ Len(delivered) >= 2
  /\ gen.segs[1].muts # <<>>
  /\ delivered[2].ok /\ ~delivered[2].done
  /\ delivered[2].batch # <<>>

----------------------------------------------------------------------------
(* Properties of the patch proxy and of the client's patch interpreter *)

\* C11 as stated: replaying the emitted patches, in order, on a copy of the
\* state before the first draft mutation yields a structure equal to the
\* server's state after the mutations.
C11_PatchReplay ==
  Snapshot(applyPatches(base, Wired(target, emitted))) = Snapshot(target)

----------------------------------------------------------------------------
(* Properties of the boundary's registration *)

\* memo i of the component body cannot be read during the initial attempt:
\* its compute returned a Promise or an async iterable, or read such a memo.
\* A "cached" compute returns a Promise unless its deferred had fulfilled
\* before the boundary ran: a deferred that has not fulfilled by now had
\* not then, and for one that has, `guess` stands for what is not known.
MemoPendingAtStart(i, guess) ==
  LET Pending(m) == IF m.kind = "sync" THEN FALSE
                    ELSE IF m.kind = "cached"
                      THEN dState[m.k] # "fulfilled" \/ guess
                    ELSE TRUE
      m == prog.memos[i]
  IN IF m.kind = "derived" THEN Pending(prog.memos[m.dep]) \/ m.k # 0
     ELSE Pending(m)

\* the component body throws a NotReadyError in the initial attempt
BodySuspends(guess) ==
  prog.bodyRead # 0 /\ MemoPendingAtStart(prog.bodyRead, guess)

\* hole h is pending after the initial attempt
HoleSuspends(h, guess) ==
  \E j \in 1..Len(prog.holes[h].chain) :
    MemoPendingAtStart(prog.holes[h].chain[j], guess)

\* the initial attempt suspended: a NotReadyError thrown from the body, or
\* at least one pending hole of a body that returned its template
InitialAttemptSuspended(guess) ==
  \/ BodySuspends(guess)
  \/ /\ prog.bodyThrow # "always"
     /\ \E h \in 1..Len(prog.holes) : HoleSuspends(h, guess)

\* C16: a Loading boundary calls registerFragment exactly once if and only
\* if the context is async and its initial attempt suspended (a
\* NotReadyError thrown from the body or at least one pending hole); a
\* boundary whose children render without suspending registers no fragment
\* and returns the children, not the fallback.
C16_RegistersIffSuspended ==
  (phase # "fresh" /\ thrown.tag = "none") =>
    /\ registered <= 1
    /\ (ctxAsync /\ InitialAttemptSuspended(FALSE)) => registered = 1
    /\ registered = 1 => (ctxAsync /\ InitialAttemptSuspended(TRUE))
    /\ (~InitialAttemptSuspended(TRUE) \/ phase = "returned") =>
         /\ phase = "returned"
         /\ registered = 0
         /\ attempt = 1
         /\ ret.p = <<>>
         /\ ret.def => ret.t[1] = ExpectedHtml(Len(prog.holes))

\* an async boundary with a pending hole has registered its fragment and
\* has since re-resolved the hole and called done
C16_Witness ==
  /\ ctxAsync
  /\ ~BodySuspends(TRUE)
  /\ InitialAttemptSuspended(FALSE)
  /\ registered = 1
  /\ fragment.settled

\* the "$$f" writes under the boundary's id in a serialization log
IsMarker(w) == w = Write(-2, "$$f", 0)

Markers(log) == SelectSeq(log, IsMarker)

\* C17: in a non-async context a Loading boundary whose children suspend
\* registers no fragment, serializes the sentinel "$$f" under its boundary
\* id exactly once, and returns the fallback; "$$f" is never serialized
\* for a boundary whose children did not suspend.
C17_SyncFallbackMarker ==
  /\ (phase # "fresh" /\ thrown.tag = "none" /\ ~ctxAsync
        /\ InitialAttemptSuspended(FALSE)) =>
       /\ registered = 0
       /\ phase = "fallback"
       /\ Len(Markers(realLog)) = 1
  /\ (~InitialAttemptSuspended(TRUE) \/ ctxAsync \/ phase = "fresh") =>
       /\ Markers(realLog) = <<>>
       /\ Markers(serializeBuffer) = <<>>
  /\ Len(Markers(realLog)) <= 1

\* a non-async boundary whose hole is pending has written its marker after
\* the buffered write of the pending memo
C17_Witness ==
  /\ ~ctxAsync
  /\ ~BodySuspends(TRUE)
  /\ InitialAttemptSuspended(FALSE)
  /\ phase = "fallback"
  /\ Len(realLog) > 1
  /\ Len(Markers(realLog)) = 1

\* the segment is one of the static segments of the children's template
IsStatic(x) == \E i \in 0..Len(prog.holes) : x = "s" \o ToString(i)

\* the static segments of the initial template, in their order
StaticSegments == [i \in 1..(Len(prog.holes) + 1) |-> "s" \o ToString(i - 1)]

\* C18: after any number of hole re-resolution passes the HTML passed to
\* done contains each static segment of the boundary's initial template
\* exactly once and in its original order: no segment is duplicated or
\* dropped by repeated passes.
C18_StaticSegmentsOnce ==
  \A i \in 1..Len(doneLog) :
    doneLog[i].hasHtml => SelectSeq(doneLog[i].html, IsStatic) = StaticSegments

\* done received the HTML of a hole that reads a memo derived from another
\* async memo: the first pass, after the first memo resolved, found the
\* derived memo pending on its own promise, and a second pass resolved it
C18_Witness ==
  /\ prog.bodyRead = 0
  /\ prog.memos[1].kind = "promise"
  /\ prog.memos[2] = MemoSpec("derived", 2, 1)
  /\ prog.holes = <<HoleSpec(<<2>>, FALSE)>>
  /\ passes = 2
  /\ Len(doneLog) = 1
  /\ doneLog[1].hasHtml
  /\ Len(doneLog[1].html) = 3

\* C19: when one Loading boundary is nested inside another and only the
\* inner boundary's children suspend, only the inner boundary registers a
\* fragment; the outer boundary takes the sync-success path and its
\* returned output contains the inner boundary's placeholder and fallback.
C19_OnlyInnerRegisters ==
  (nested /\ ctxAsync /\ phase # "fresh" /\ thrown.tag = "none"
     /\ InitialAttemptSuspended(FALSE)) =>
    /\ registered = 1
    /\ outer.registered = 0
    /\ outer.phase = "returned"
    /\ outer.ret.def
    /\ outer.ret.p = <<>>
    /\ outer.ret.t = <<<<"<template pl>", FallbackText, "<!--pl-->">>>>

\* the inner boundary, suspended on a pending hole, registered its fragment
\* and has settled it since; the outer boundary returned at once
C19_Witness ==
  /\ nested
  /\ ctxAsync
  /\ ~BodySuspends(TRUE)
  /\ InitialAttemptSuspended(FALSE)
  /\ registered = 1
  /\ outer.phase = "returned"
  /\ doneLog # <<>>

----------------------------------------------------------------------------
(* Properties of the memo's retry *)

\* the compute of memo g threw the NotReadyError of the memo it reads, and
\* the memo still carries it
ThrewNotReady(g) ==
  LET sp == prog.memos[memos[g].idx]
  IN /\ sp.kind = "derived"
     /\ memos[g].error.tag = "NRE"
     /\ memos[g].error.k = prog.memos[sp.dep].k

\* the reaction source.then(() => update()) of memo g is queued to run
RetryQueued(g) ==
  \E i \in 1..Len(microtasks) :
    microtasks[i].type = "memoRetry" /\ microtasks[i].g = g

\* C20: if a server memo's compute throws NotReadyError(source), every read
\* of the memo re-throws that error until source settles, and once source
\* settles the memo's compute is run again without any read being
\* required: a memo that carries the error of a settled source has its
\* retry queued.
C20_RetriesOnceSettled ==
  \A g \in 1..Len(memos) :
    ThrewNotReady(g) =>
      \/ PromiseState([src |-> memos[g].error.src, k |-> memos[g].error.k])
           = "pending"
      \/ RetryQueued(g)

----------------------------------------------------------------------------
(* Properties of the tapped iterable *)

\* C15: the tapped async iterable a server-mode memo hands to serialize
\* yields exactly the source iterable's results, in order and each once:
\* its n-th next() resolves to the source's n-th result, and its first
\* next() resolves to the first value also when the first value had
\* already been consumed eagerly.
C15_TappedForwardsSource ==
  /\ Len(delivered) = consumed
  /\ \A n \in 1..Len(delivered) : delivered[n].result = NextResult(n)

\* the first next() was called after firstReady had stored the first value,
\* and the second result has been delivered too
C15_Witness ==
  /\ Len(gen.segs) = 2
  /\ gen.segs[1].value # gen.segs[2].value
  /\ Len(delivered) = 2
  /\ delivered[1].eager
  /\ delivered[1].result.value = gen.segs[1].value
  /\ delivered[2].result.value = gen.segs[2].value

----------------------------------------------------------------------------
(* Properties of the round trip *)

\* the server holds a value and the client has read one
BothObserved == server.settled /\ server.error = "none" /\ client.first.set

Covered ==
  \/ trip.result = "sync"
  \/ trip.prim = "memo" /\ trip.result = "promise"
  \/ trip.prim = "memo" /\ trip.result = "iter" /\ trip.ssrSource # "hybrid"
       /\ arrived.s

----------------------------------------------------------------------------
(* Server primitives: creation under one owner, settlement of the promises
   they wait on, the promise reactions, reads and isPending, with requests
   replacing sharedConfig.context in between *)

MaxPrims == 2

\* the serialize calls of one step, each with the context that was current
\* when it was made
During(ser, current) ==
  [k \in DOMAIN ser |->
     [ctx |-> ser[k].ctx, id |-> ser[k].id, what |-> ser[k].what, during |-> current]]

\* the primitives after a step of primitive i (a new one when i is one past the end)
Placed(i, q) ==
  IF i > Len(prims) THEN Append(prims, q) ELSE [prims EXCEPT ![i] = q]

CreateMemoStep ==
  /\ Len(prims) < planned
  /\ \E mode \in Modes, kind \in Kinds, lazy \in BOOLEAN, init \in BOOLEAN :
       \E d \in {serverCreateMemo("memo", mode, kind, lazy, init, Len(prims) + 1,
                                  owned, sharedContext)} :
         /\ prims' = Placed(Len(prims) + 1, d.q)
         /\ serialized' = serialized \o During(d.ser, sharedContext)
         /\ xtasks' = xtasks \o d.tasks
         /\ owned' = owned + OwnersCreated("memo", mode)
  /\ UNCHANGED <<sharedContext, noHydrate, planned, reentry, xCall, caught>>
  /\ UNCHANGED nonServer

CreateSignalStep ==
  /\ Len(prims) < planned
  /\ \E mode \in Modes, kind \in Kinds :
       \E d \in {serverCreateSignal(mode, kind, Len(prims) + 1, owned, sharedContext)} :
         /\ prims' = Placed(Len(prims) + 1, d.q)
         /\ serialized' = serialized \o During(d.ser, sharedContext)
         /\ xtasks' = xtasks \o d.tasks
         /\ owned' = owned + OwnersCreated("signal", mode)
  /\ UNCHANGED <<sharedContext, noHydrate, planned, reentry, xCall, caught>>
  /\ UNCHANGED nonServer

CreateProjectionStep ==
  /\ Len(prims) < planned
  /\ \E mode \in Modes, kind \in {"sync", "promise"} :
       \E d \in {serverCreateProjection(mode, kind, Len(prims) + 1, owned,
                                        sharedContext, noHydrate)} :
         /\ prims' = Placed(Len(prims) + 1, d.q)
         /\ serialized' = serialized \o During(d.ser, sharedContext)
         /\ xtasks' = xtasks \o d.tasks
         /\ owned' = owned + OwnersCreated("projection", mode)
  /\ UNCHANGED <<sharedContext, noHydrate, planned, reentry, xCall, caught>>
  /\ UNCHANGED nonServer

\* one error a boundary caught: the boundary, the error and the way it came
BoundaryCaught(q, err, path) == [id |-> q.id, ctx |-> q.ctx, err |-> err, path |-> path]

CreateErrorBoundaryStep ==
  /\ Len(prims) < planned
  /\ \E kind \in BoundaryKinds :
       \E d \in {serverCreateErrorBoundary(kind, owned, sharedContext, noHydrate)} :
         /\ prims' = Placed(Len(prims) + 1, d.q)
         /\ serialized' = serialized \o During(d.ser, sharedContext)
         /\ caught' = IF kind = "throws" THEN Append(caught, BoundaryCaught(d.q, "err", "sync"))
                      ELSE IF kind = "notReady"
                        THEN Append(caught, BoundaryCaught(d.q, "NRE_src", "sync"))
                      ELSE caught
         /\ owned' = owned + OwnersCreated("boundary", "default")
  /\ UNCHANGED <<sharedContext, noHydrate, planned, reentry, xtasks, xCall>>
  /\ UNCHANGED nonServer

\* a descendant of the boundary hands an error to its ErrorContext handler
RouteError ==
  /\ \E i \in DOMAIN prims :
       /\ prims[i].prim = "boundary"
       /\ prims[i].kind = "routes"
       /\ ~prims[i].handled
       /\ \E d \in {boundaryCatch(prims[i], "err", "handler", noHydrate)} :
            /\ prims' = Placed(i, d.q)
            /\ serialized' = serialized \o During(d.ser, sharedContext)
            /\ caught' = Append(caught, BoundaryCaught(d.q, "err", "handler"))
  /\ UNCHANGED <<sharedContext, noHydrate, planned, reentry, owned, xtasks, xCall>>
  /\ UNCHANGED nonServer

\* another request's render replaces sharedConfig.context
SwitchContext ==
  /\ \E c \in (Contexts \cup {NoContext}) \ {sharedContext} : sharedContext' = c
  /\ UNCHANGED <<noHydrate, planned, reentry, owned, prims, serialized, xtasks, xCall, caught>>
  /\ UNCHANGED nonServer

\* the promise compute returns fulfils; a registered reaction is queued
FulfilPromise ==
  /\ \E i \in DOMAIN prims :
       /\ prims[i].prim # "boundary"
       /\ prims[i].kind \in {"promise", "retry"}
       /\ ~SkipsCompute(prims[i].mode)
       /\ prims[i].p.state = "pending"
       /\ prims' = [prims EXCEPT ![i].p.state = "fulfilled"]
       /\ xtasks' = IF prims[i].p.reg THEN Append(xtasks, [i |-> i, job |-> "then"])
                    ELSE xtasks
  /\ UNCHANGED <<sharedContext, noHydrate, planned, reentry, owned, serialized, xCall, caught>>
  /\ UNCHANGED nonServer

\* the source a NotReadyError carries fulfils; a chained re-computation is queued
FulfilSource ==
  /\ \E i \in DOMAIN prims :
       /\ prims[i].prim # "boundary"
       /\ prims[i].kind = "retry"
       /\ ~SkipsCompute(prims[i].mode)
       /\ prims[i].src = "pending"
       /\ prims' = [prims EXCEPT ![i].src = "fulfilled"]
       /\ xtasks' = IF prims[i].chained THEN Append(xtasks, [i |-> i, job |-> "retry"])
                    ELSE xtasks
  /\ UNCHANGED <<sharedContext, noHydrate, planned, reentry, owned, serialized, xCall, caught>>
  /\ UNCHANGED nonServer

\* variant of thenReaction: the reaction leaves comp.error in place
thenReactionKeepsError(q) ==
  Did([q EXCEPT !.p.s = 1, !.p.v = "v", !.p.ran = TRUE, !.value = "v"], <<>>, <<>>)

\* the fulfilment reaction processResult and createProjection register
thenReaction(q) ==
  Did([q EXCEPT !.p.s = 1, !.p.v = "v", !.p.ran = TRUE, !.value = "v",
                !.error = "none"], <<>>, <<>>)

\* the next promise reaction runs
RunReaction ==
  /\ xtasks # <<>>
  /\ \E i \in {Head(xtasks).i} :
       \E d \in {IF Head(xtasks).job = "then" THEN thenReaction(prims[i])
                 ELSE memoUpdate(prims[i], i, sharedContext)} :
         /\ prims' = Placed(i, d.q)
         /\ serialized' = serialized \o During(d.ser, sharedContext)
         /\ xtasks' = Tail(xtasks) \o d.tasks
  /\ UNCHANGED <<sharedContext, noHydrate, planned, reentry, owned, xCall, caught>>
  /\ UNCHANGED nonServer

\* a read of a memo, a signal or a projection
ReadPrimitive ==
  /\ \E i \in DOMAIN prims :
       /\ prims[i].prim # "boundary"
       /\ \E d \in {serverAccess(prims[i], i, sharedContext)} :
            /\ prims' = Placed(i, d.q)
            /\ serialized' = serialized \o During(d.ser, sharedContext)
            /\ xtasks' = xtasks \o d.tasks
            /\ xCall' = Access(i, 0, Outcome(d.q), Outcome(d.q), d.q)
  /\ UNCHANGED <<sharedContext, noHydrate, planned, reentry, owned, caught>>
  /\ UNCHANGED nonServer

\* isPending over a read of a primitive, with one or two arguments
CallIsPending ==
  /\ \E i \in DOMAIN prims, argc \in {1, 2}, fallback \in {"true", "false"} :
       /\ argc = 1 => fallback = "false"
       /\ prims[i].prim # "boundary"
       /\ \E d \in {serverAccess(prims[i], i, sharedContext)} :
            /\ prims' = Placed(i, d.q)
            /\ serialized' = serialized \o During(d.ser, sharedContext)
            /\ xtasks' = xtasks \o d.tasks
            /\ xCall' = Access(i, argc, Outcome(d.q),
                              serverIsPending(Outcome(d.q), argc, fallback), d.q)
  /\ UNCHANGED <<sharedContext, noHydrate, planned, reentry, owned, caught>>
  /\ UNCHANGED nonServer

InitServer ==
  /\ LoadingIdle
  /\ ctxAsync = TRUE
  /\ hasHandler = FALSE
  /\ LoadingFresh
  /\ gen = NoGenerator
  /\ StreamFresh
  /\ DraftFresh
  /\ TripFresh
  /\ ServerIdle
  /\ planned = 1
  /\ ClientFresh

NextServer ==
  \/ CreateMemoStep
  \/ CreateSignalStep
  \/ CreateProjectionStep
  \/ CreateErrorBoundaryStep
  \/ RouteError
  \/ SwitchContext
  \/ FulfilPromise
  \/ FulfilSource
  \/ RunReaction
  \/ ReadPrimitive
  \/ CallIsPending

SpecServer == InitServer /\ [][NextServer]_vars

\* a render that creates MaxPrims sibling primitives
InitSiblings ==
  /\ LoadingIdle
  /\ ctxAsync = TRUE
  /\ hasHandler = FALSE
  /\ LoadingFresh
  /\ gen = NoGenerator
  /\ StreamFresh
  /\ DraftFresh
  /\ TripFresh
  /\ ServerIdle
  /\ planned = MaxPrims
  /\ ClientFresh

NextSiblings ==
  \/ CreateMemoStep
  \/ CreateSignalStep
  \/ CreateProjectionStep
  \/ CreateErrorBoundaryStep

SpecSiblings == InitSiblings /\ [][NextSiblings]_vars

\* the primitive a serialize call names
Named(k) == {i \in DOMAIN prims : prims[i].id = serialized[k].id}

\* C21: every serialize call a memo issues, a retry from a promise callback
\* after another request replaced sharedConfig.context included, goes to the
\* HydrationContext that was current when the memo was created
C21_SerializesToCreationContext ==
  \A k \in DOMAIN serialized :
    \A i \in Named(k) :
      prims[i].prim = "memo" => serialized[k].ctx = prims[i].ctx

\* a memo's re-computation serialized its promise while another request's
\* context was current
C21_Witness ==
  \E k \in DOMAIN serialized :
    \E i \in Named(k) :
      /\ prims[i].prim = "memo"
      /\ prims[i].kind = "retry"
      /\ serialized[k].during = "B"
      /\ serialized[k].ctx = "A"

\* the last call was a plain read of a memo without initial value whose
\* compute returned a Promise
ReadOfAsyncMemo ==
  /\ xCall.i \in DOMAIN prims
  /\ xCall.argc = 0
  /\ prims[xCall.i].prim = "memo"
  /\ prims[xCall.i].kind = "promise"
  /\ ~prims[xCall.i].init
  /\ ~SkipsCompute(prims[xCall.i].mode)

\* C22 as stated: a read of such a memo throws the NotReadyError carrying the
\* promise while the promise is pending, and once the promise has fulfilled
\* with v returns v, the promise then having s = 1 and v set
C22_Original ==
  ReadOfAsyncMemo =>
    IF xCall.settled
      THEN ~xCall.threw /\ xCall.value = "v" /\ xCall.s = 1 /\ xCall.v = "v"
      ELSE xCall.threw /\ xCall.value = "NRE_p"

\* C22: a read of such a memo throws the NotReadyError carrying the promise
\* until the memo's own fulfilment reaction has run, and returns v on every
\* read after it, the promise then having s = 1 and v set
C22_ReadsFollowReaction ==
  ReadOfAsyncMemo =>
    IF xCall.ran
      THEN ~xCall.threw /\ xCall.value = "v" /\ xCall.s = 1 /\ xCall.v = "v"
      ELSE xCall.threw /\ xCall.value = "NRE_p"

\* such a memo was read after its reaction had run, and the promise it
\* serialized has s and v
C22_Witness ==
  /\ ReadOfAsyncMemo
  /\ xCall.ran
  /\ ~xCall.threw
  /\ \E k \in DOMAIN serialized : serialized[k].what = "promise"

\* C23: nothing is ever serialized under the id of a memo, a function-form
\* signal or a projection created with ssrSource "initial" or "client",
\* neither at creation nor on a later read
C23_SkippedNeverSerializes ==
  \A k \in DOMAIN serialized :
    \A i \in Named(k) :
      prims[i].prim \in {"memo", "signal", "projection"}
        => ~SkipsCompute(prims[i].mode)

\* a primitive created with "initial" or "client" over an async compute has
\* been read and nothing was serialized
C23_Witness ==
  /\ xCall.i \in DOMAIN prims
  /\ SkipsCompute(prims[xCall.i].mode)
  /\ prims[xCall.i].kind = "promise"
  /\ prims[xCall.i].ctx = "A"
  /\ ~xCall.threw
  /\ serialized = <<>>

\* C24: every creation of a memo, a function-form signal or a projection
\* takes exactly one child id from the current owner whatever its ssrSource,
\* so the k-th sibling gets the k-th id under every mode of its elder siblings
C24_OneIdPerPrimitive ==
  /\ owned = Len(prims)
  /\ \A i \in DOMAIN prims : prims[i].id = i - 1

\* a primitive follows a sibling that skipped its computation
C24_Witness ==
  /\ Len(prims) = MaxPrims
  /\ prims[1].prim \in {"memo", "signal", "projection"}
  /\ SkipsCompute(prims[1].mode)
  /\ prims[2].prim \in {"memo", "signal", "projection"}
  /\ ~SkipsCompute(prims[2].mode)
  /\ prims[2].id = 1

\* C25: whenever an error boundary created in a render whose
\* HydrationContext does not set noHydrate catches an error, thrown by fn or
\* handed to its ErrorContext handler, that error is serialized to that
\* context under the boundary owner's id
C25_CaughtErrorSerialized ==
  \A k \in DOMAIN caught :
    (caught[k].ctx # NoContext /\ ~noHydrate[caught[k].ctx])
      => \E j \in DOMAIN serialized :
           /\ serialized[j].ctx = caught[k].ctx
           /\ serialized[j].id = caught[k].id
           /\ serialized[j].what = caught[k].err

\* a boundary rendered under A received an error through its handler while
\* B was the current context, and serialized it
C25_Witness ==
  \E k \in DOMAIN caught :
    /\ caught[k].path = "handler"
    /\ caught[k].ctx = "A"
    /\ \E j \in DOMAIN serialized :
         /\ serialized[j].what = "err"
         /\ serialized[j].during = "B"

\* C26 as stated: isPending(fn) with one argument returns true whenever fn
\* throws a NotReadyError and false whenever fn completes
C26_Original ==
  xCall.argc = 1 =>
    /\ ~xCall.threw
    /\ xCall.value = IF xCall.fnThrew THEN "true" ELSE "false"

\* C26: isPending(fn) with one argument returns false whenever fn completes
\* and re-throws the NotReadyError whenever fn throws one
C26_SingleArgumentRethrows ==
  xCall.argc = 1 =>
    IF xCall.fnThrew
      THEN xCall.threw /\ xCall.value \in {"NRE_p", "NRE_src"}
      ELSE ~xCall.threw /\ xCall.value = "false"

\* isPending(fn) was called over a read that threw a NotReadyError
C26_Witness ==
  /\ xCall.argc = 1
  /\ xCall.fnThrew
  /\ xCall.threw

----------------------------------------------------------------------------
(* Client hydration: actions. A hydration walk is synchronous, so promise
   reactions and microtasks run only between walks *)

\* the hydration phase after a step
Become(w) ==
  /\ hydrating' = w.hydrating
  /\ walking' = w.walking
  /\ doneValue' = w.done
  /\ doneWasSet' = w.doneWasSet
  /\ hydrationDone' = w.hydrationDone
  /\ pendingBoundaries' = w.pending
  /\ endCallbacks' = w.callbacks
  /\ cmicro' = w.micro
  /\ cbs' = w.cbs
  /\ loadings' = w.loadings

UnusedCallbacks == {c \in HydrationCallbacks : cbs[c].state = "none"}
UnusedBoundaries == {b \in LoadingBoundaries : loadings[b].state = "none"}

\* hydrate() sets sharedConfig.hydrating = true
StartHydration ==
  /\ ~hydrating
  /\ \E w \in {setHydrating(Client, TRUE)} : Become(w)
  /\ UNCHANGED <<eb, orphans, ai>>
  /\ UNCHANGED nonClient

\* hydrate() sets sharedConfig.hydrating = false after the walk
EndHydration ==
  /\ hydrating
  /\ \E w \in {setHydrating(Client, FALSE)} : Become(w)
  /\ UNCHANGED <<eb, orphans, ai>>
  /\ UNCHANGED nonClient

\* onHydrationEnd is called with a new callback
RegisterCallback ==
  /\ UnusedCallbacks # {}
  /\ \E c \in {CHOOSE c \in UnusedCallbacks : \A d \in UnusedCallbacks : c <= d} :
       \E w \in {onHydrationEnd(Client, c)} : Become(w)
  /\ UNCHANGED <<eb, orphans, ai>>
  /\ UNCHANGED nonClient

\* a Loading rendered by the walk finds data or assets to wait for
LoadingWaits ==
  /\ hydrating
  /\ UnusedBoundaries # {}
  /\ \E b \in {CHOOSE b \in UnusedBoundaries : \A d \in UnusedBoundaries : b <= d},
        kind \in WaitKinds :
       \E w \in {loadingWaits(Client, b, kind)} : Become(w)
  /\ UNCHANGED <<eb, orphans, ai>>
  /\ UNCHANGED nonClient

\* the data or the assets of a waiting boundary arrive
BoundaryResumes ==
  /\ ~hydrating
  /\ \E b \in LoadingBoundaries, disposed \in BOOLEAN,
        reg \in UnusedCallbacks \cup {0}, nest \in UnusedBoundaries \cup {0},
        kind \in WaitKinds :
       /\ loadings[b].state = "waiting"
       /\ loadings[b].kind \in {"data", "assets"}
       /\ disposed => (reg = 0 /\ nest = 0)
       /\ nest = 0 => kind = "data"
       /\ \E w \in {resumeBoundaryHydration(Client, b, disposed, reg, nest, kind)} :
            Become(w)
  /\ UNCHANGED <<eb, orphans, ai>>
  /\ UNCHANGED nonClient

\* the data of a waiting boundary is rejected
BoundaryFails ==
  /\ ~walking
  /\ \E b \in LoadingBoundaries :
       /\ loadings[b].state = "waiting"
       /\ loadings[b].kind = "data"
       /\ \E w \in {boundaryRejected(Client, b)} : Become(w)
  /\ UNCHANGED <<eb, orphans, ai>>
  /\ UNCHANGED nonClient

\* the microtask of a boundary that waits on the server's fallback runs
FallbackReleased ==
  /\ ~walking
  /\ \E b \in LoadingBoundaries :
       /\ loadings[b].state = "waiting"
       /\ loadings[b].kind = "fallback"
       /\ \E w \in {afterAssets(Client, b)} : Become(w)
  /\ UNCHANGED <<eb, orphans, ai>>
  /\ UNCHANGED nonClient

\* sharedConfig.done is assigned
SetDone ==
  /\ \E v \in BOOLEAN : \E w \in {setDone(Client, v)} : Become(w)
  /\ UNCHANGED <<eb, orphans, ai>>
  /\ UNCHANGED nonClient

\* a callback handed to queueMicrotask runs
CallbackMicrotask ==
  /\ ~hydrating
  /\ cmicro # <<>>
  /\ \E w \in {runCallback([Client EXCEPT !.micro = Tail(cmicro)], Head(cmicro))} :
       Become(w)
  /\ UNCHANGED <<eb, orphans, ai>>
  /\ UNCHANGED nonClient

NextClient ==
  \/ StartHydration
  \/ EndHydration
  \/ RegisterCallback
  \/ LoadingWaits
  \/ BoundaryResumes
  \/ BoundaryFails
  \/ FallbackReleased
  \/ SetDone
  \/ CallbackMicrotask

InitClient ==
  /\ LoadingIdle
  /\ ctxAsync = TRUE
  /\ hasHandler = FALSE
  /\ LoadingFresh
  /\ gen = NoGenerator
  /\ StreamFresh
  /\ DraftFresh
  /\ TripFresh
  /\ ServerFresh
  /\ ClientFresh

SpecClient == InitClient /\ [][NextClient]_vars

\* a hydration walk is synchronous, so it ends; the microtask queue is
\* drained every time the walk's task has ended
FairClient == SpecClient /\ WF_vars(EndHydration) /\ SF_vars(CallbackMicrotask)

\* an error boundary is created, while hydrating or not
CreateBoundary ==
  /\ ~eb.made
  /\ \E has \in BOOLEAN, value \in SerializedValues :
       /\ ~has => value = "undefined"
       /\ eb' = hydratedCreateErrorBoundary(hydrating, has, value)
  /\ UNCHANGED <<hydrating, walking, doneValue, doneWasSet, hydrationDone,
                 pendingBoundaries, endCallbacks, cmicro, cbs, loadings, orphans, ai>>
  /\ UNCHANGED nonClient

\* the core boundary evaluates the function it was given: at creation and
\* after every reset
EvaluateBoundary ==
  /\ eb.made
  /\ Len(eb.evals) < MaxEvals
  /\ \E fnThrows \in BOOLEAN : eb' = evaluateBoundary(eb, fnThrows)
  /\ UNCHANGED <<hydrating, walking, doneValue, doneWasSet, hydrationDone,
                 pendingBoundaries, endCallbacks, cmicro, cbs, loadings, orphans, ai>>
  /\ UNCHANGED nonClient

NextBoundary ==
  \/ StartHydration
  \/ EndHydration
  \/ CreateBoundary
  \/ EvaluateBoundary

SpecBoundary == InitClient /\ [][NextBoundary]_vars

\* the boundary was created while hydrating and its id has a serialized error
HasSerializedError == eb.made /\ eb.whileHydrating /\ eb.has /\ eb.value # "undefined"

\* C27: an error boundary hydrated from a serialized error throws it on its
\* first evaluation without calling fn and calls the real fn on every later
\* evaluation; the serialized error is thrown at most once
C27_ThrowsSerializedOnce ==
  (HasSerializedError /\ eb.evals # <<>>) =>
    /\ eb.evals[1] = "serialized"
    /\ \A k \in DOMAIN eb.evals : k > 1 => eb.evals[k] \in {"returned", "threw"}
    /\ eb.fnCalls = Len(eb.evals) - 1

\* the boundary threw the serialized error, was reset and ran fn twice
C27_Witness ==
  /\ HasSerializedError
  /\ Len(eb.evals) = MaxEvals
  /\ eb.evals[2] = "returned"

\* hydration is complete: no walk is in progress and no boundary waits
HydrationComplete == ~hydrating /\ ~AnyWaiting(Client)

C30_NoCallbackBeforeCompletion ==
  \A c \in HydrationCallbacks : cbs[c].during => ~cbs[c].early

----------------------------------------------------------------------------
(* Client Loading boundaries: disposal before the data arrives, and a
   resumption whose re-run of the children throws *)

\* Loading registers its onCleanup only on the path that waits for data
HasCleanup(b) == loadings[b].kind \in {"data", "fallback"}

\* the owner of a waiting boundary is disposed: its cleanups run
DisposeBoundary ==
  /\ ~walking
  /\ \E b \in LoadingBoundaries :
       /\ loadings[b].state = "waiting"
       /\ ~orphans[b].disposed
       /\ orphans' = [orphans EXCEPT ![b] =
                        boundaryCleanup([@ EXCEPT !.disposed = TRUE], HasCleanup(b), TRUE)]
  /\ UNCHANGED <<hydrating, walking, doneValue, doneWasSet, hydrationDone,
                 pendingBoundaries, endCallbacks, cmicro, cbs, loadings, eb, ai>>
  /\ UNCHANGED nonClient

\* the data or the assets of a waiting boundary arrive and the reaction
\* () => resumeBoundaryHydration(o, id, set) runs; the re-run of the
\* children may throw out of flush()
DataArrives ==
  /\ ~walking
  /\ \E b \in LoadingBoundaries, threw \in BOOLEAN,
        nest \in UnusedBoundaries \cup {0}, kind \in WaitKinds :
       /\ loadings[b].state = "waiting"
       /\ loadings[b].kind \in {"data", "assets"}
       /\ orphans[b].disposed => (~threw /\ nest = 0)
       /\ nest = 0 => kind = "data"
       /\ \E w \in {IF threw
                      THEN resumeBoundaryThrows(Client, b, 0, nest, kind)
                      ELSE resumeBoundaryHydration(Client, b, orphans[b].disposed,
                                                   0, nest, kind)} :
            Become(w)
       /\ orphans' = [orphans EXCEPT ![b] = resumeOrphan(@, HasCleanup(b))]
  /\ UNCHANGED <<eb, ai>>
  /\ UNCHANGED nonClient

NextResume ==
  \/ StartHydration
  \/ EndHydration
  \/ LoadingWaits
  \/ DisposeBoundary
  \/ DataArrives
  \/ BoundaryFails
  \/ FallbackReleased

SpecResume == InitClient /\ [][NextResume]_vars

\* the reaction of boundary b's data ran resumeBoundaryHydration past its
\* isDisposed test in this step
Resumption(b) ==
  /\ loadings[b].state = "waiting"
  /\ loadings'[b].state \in {"resumed", "threw"}

\* C31: when a resumption that set the hydrating flag to re-run the children
\* ends, by returning or by a throw of the re-run or of flush(), the flag is
\* false again
C31_FlagRestoredOnEveryExit ==
  [][\A b \in LoadingBoundaries : Resumption(b) => ~hydrating']_vars

\* C32: a boundary that waits for data and is disposed before the data arrives
\* has had cleanupFragment(id) invoked once, and neither gathers its entry nor
\* re-runs its children when the data arrives; cleanupFragment is not invoked
\* for a boundary that was not disposed, whether or not it resumed and re-ran
C32_OrphanCleanedNotResumed ==
  \A b \in LoadingBoundaries :
    /\ (orphans[b].disposed /\ loadings[b].kind = "data") => orphans[b].cleanups = 1
    /\ orphans[b].disposed => (~orphans[b].gathered /\ ~orphans[b].reran)
    /\ ~orphans[b].disposed => orphans[b].cleanups = 0

\* the data of a disposed boundary has arrived, and another boundary that
\* waited for data resumed and re-ran
C32_Witness ==
  \E b, c \in LoadingBoundaries :
    /\ loadings[b].kind = "data"
    /\ orphans[b].disposed
    /\ loadings[b].state = "cancelled"
    /\ orphans[b].cleanups = 1
    /\ loadings[c].kind = "data"
    /\ loadings[c].state = "resumed"
    /\ orphans[c].reran

\* the Loading boundaries that began waiting and have not finished waiting
Waiting == {b \in LoadingBoundaries : loadings[b].state = "waiting"}

\* C40: the pending-boundary counter is never negative and equals the number
\* of Loading boundaries that started waiting and have not finished waiting,
\* also when a new hydration pass begins while earlier boundaries wait
C40_CounterMatchesWaiting ==
  /\ pendingBoundaries >= 0
  /\ pendingBoundaries = Cardinality(Waiting)

----------------------------------------------------------------------------
(* A memo hydrated from a serialized async iterable *)

\* createMemo while hydrating finds an async iterable under its id
HydrateIterable ==
  /\ ~ai.made
  /\ \E yields \in IterableYields, sync \in BOOLEAN, n \in 0..MaxResults,
        endSync \in BOOLEAN :
       /\ n <= Len(yields)
       /\ ai' = hydrateIterable(yields, sync, n, endSync)
  /\ UNCHANGED <<hydrating, walking, doneValue, doneWasSet, hydrationDone,
                 pendingBoundaries, endCallbacks, cmicro, cbs, loadings, eb, orphans>>
  /\ UNCHANGED nonClient

\* the Promise the last iter.next() returned fulfils
NextSettles ==
  /\ ai.waiting
  /\ \E n \in 0..MaxResults, endSync \in BOOLEAN :
       /\ n <= Len(ai.yields)
       /\ ai' = nextSettled(ai, n, endSync)
  /\ UNCHANGED <<hydrating, walking, doneValue, doneWasSet, hydrationDone,
                 pendingBoundaries, endCallbacks, cmicro, cbs, loadings, eb, orphans>>
  /\ UNCHANGED nonClient

NextIterable ==
  \/ HydrateIterable
  \/ NextSettles

SpecIterable == InitClient /\ [][NextIterable]_vars

\* the results of the next() calls whose outcome has been seen
Seen == IF ai.waiting THEN ai.calls - 1 ELSE ai.calls

\* the first result became the hydration value, the later results seen so
\* far were written in yield order, each once, and after the iterator has
\* finished the signal the memo reads holds the last yielded value
ConsumedInOrder ==
  /\ ai.firstValue = IF ai.yields # <<>> THEN ai.yields[1] ELSE "undefined"
  /\ ai.writes = SubSeq(ai.yields, 2, IF Seen < Len(ai.yields) THEN Seen ELSE Len(ai.yields))
  /\ (ai.finished /\ ai.yields # <<>>) => ai.value = ai.yields[Len(ai.yields)]

\* C33 as stated: for every async iterable found under a hydrated memo's id
C33_Original == ai.made => ConsumedInOrder

\* C33: when the iterator's first next() returns its result synchronously,
\* that result is the memo's hydration value, every later result is written
\* in yield order exactly once, and after the iterator has finished the
\* memo's value is the last yielded value
C33_SyncFirstThenInOrder == (ai.made /\ ai.firstSync) => ConsumedInOrder

\* an iterable of MaxResults values was consumed to its end, its first result
\* synchronously and later ones through Promise reactions
C33_Witness ==
  /\ ai.made
  /\ ai.firstSync
  /\ Len(ai.yields) = MaxResults
  /\ ai.finished
  /\ ai.thens >= 2
  /\ ai.writes = Tail(ai.yields)

----------------------------------------------------------------------------
(* splice on a proxied array *)

\* draft.items.splice(start), draft.items.splice(start, deleteCount, ...items)
SpliceArray ==
  /\ Len(emitted) + 1 < MaxPatches
  /\ \E start \in (0 - (MaxArrayLen + 1))..(MaxArrayLen + 1), given \in BOOLEAN,
        deleteCount \in (0 - 1)..(MaxArrayLen + 1), items \in SeqsUpTo(DraftValues, 2) :
       /\ ~given => (deleteCount = 0 /\ items = <<>>)
       /\ \E r \in {splice(Proxy, <<"items">>, start, given, deleteCount, items)} :
            /\ Len(r.g.heap[r.g.root.items].elems) <= MaxArrayLen
            /\ target' = r.g
            /\ emitted' = r.patches
            /\ spliced' =
                 [called |-> TRUE, len |-> Len(Items), start |-> start, given |-> given,
                  deleteCount |-> deleteCount, items |-> items,
                  removed |-> Len(Items) + Len(items) - Len(r.g.heap[r.g.root.items].elems),
                  patches |-> SubSeq(r.patches, Len(emitted) + 1, Len(r.patches))]
  /\ UNCHANGED base
  /\ UNCHANGED nonDraft

InitSplice ==
  /\ LoadingIdle
  /\ ctxAsync = TRUE
  /\ hasHandler = FALSE
  /\ LoadingFresh
  /\ gen = NoGenerator
  /\ StreamFresh
  /\ target \in {Graph("", elems, "") : elems \in SeqsUpTo(DraftValues, MaxArrayLen)}
  /\ emitted = <<>>
  /\ base = target
  /\ spliced = NoSplice
  /\ TripFresh
  /\ ServerFresh
  /\ ClientFresh

SpecSplice == InitSplice /\ [][SpliceArray]_vars

\* start clamped into [0, n], a negative start counted from the end
ClampedStart(n, start) ==
  LET from == IF start < 0 THEN n + start ELSE start
  IN IF from < 0 THEN 0 ELSE IF from > n THEN n ELSE from

\* del clamped into [0, room]
ClampedCount(room, del) == IF del < 0 THEN 0 ELSE IF del > room THEN room ELSE del

\* C34: splice(start, del, ...ins) on a proxied array of length n emits d
\* delete patches, all at index s, then one insert patch per inserted item at
\* s, s + 1, ..., where s is start clamped into [0, n] and d is del clamped
\* into [0, n - s] (n - s when del is left out); d elements were removed
C34_SplicePatches ==
  spliced.called =>
    LET n == spliced.len
        s1 == ClampedStart(n, spliced.start)
        d == IF spliced.given THEN ClampedCount(n - s1, spliced.deleteCount) ELSE n - s1
    IN /\ Len(spliced.patches) = d + Len(spliced.items)
       /\ \A i \in 1..d :
            spliced.patches[i] = PatchOp(1, <<"items", ToString(s1)>>, NoValue)
       /\ \A i \in 1..Len(spliced.items) :
            spliced.patches[d + i] =
              PatchOp(3, <<"items", ToString(s1 + i - 1)>>, Prim(spliced.items[i]))
       /\ spliced.removed = d

\* a splice with a negative start and a deleteCount beyond the end removed
\* two elements and inserted one
C34_Witness ==
  /\ spliced.called
  /\ spliced.start < 0
  /\ spliced.given
  /\ spliced.deleteCount > spliced.len
  /\ spliced.removed = 2
  /\ Len(spliced.items) = 1

\* C35: the serialize calls the children made during the boundary's final
\* attempt, which its flush hands to origSerialize, reach the transport's
\* serializer exactly once, in the order issued and unchanged, also for a
\* boundary nested in another one that has already flushed its own buffer
C35_FlushedReachTransport ==
  LET Flushed(w) == \E i \in 1..Len(committed) : committed[i] = w
  IN SelectSeq(transport, Flushed) = committed

----------------------------------------------------------------------------
(* Two requests whose renders interleave at the awaits of a Loading boundary *)

\* the render of the request that is current calls Loading, whose children
\* suspend: by a throw of the component body or by a pending hole
BoundarySuspends ==
  /\ reentry.phase = "none"
  /\ sharedContext # NoContext
  /\ \E next \in {"awaitRender", "awaitHoles"} :
       reentry' = [ctx |-> loadingContext(sharedContext), phase |-> next,
                   attempts |-> 1, sweeps |-> 0,
                   made |-> childrenCreate(sharedContext, noHydrate, "initial")]
  /\ UNCHANGED <<sharedContext, noHydrate, planned, owned, prims, serialized, xtasks,
                 xCall, caught>>
  /\ UNCHANGED nonServer

\* the IIFE continues after `await runPromise`: runInitially() resolves the
\* children again, which create their primitives anew
BoundaryReRenders ==
  /\ reentry.phase = "awaitRender"
  /\ reentry.attempts < MaxAttempts
  /\ \E next \in {"awaitRender", "awaitHoles", "done"} :
       reentry' = [reentry EXCEPT
                     !.phase = next,
                     !.attempts = @ + 1,
                     !.made = @ \o childrenCreate(sharedContext, noHydrate, "rerender")]
  /\ UNCHANGED <<sharedContext, noHydrate, planned, owned, prims, serialized, xtasks,
                 xCall, caught>>
  /\ UNCHANGED nonServer

\* the IIFE continues after `await Promise.all(ret.p)`: the holes run again
\* and create what they create
BoundaryReExecutes ==
  /\ reentry.phase = "awaitHoles"
  /\ reentry.sweeps < MaxPasses
  /\ \E next \in {"awaitHoles", "done"} :
       reentry' = [reentry EXCEPT
                     !.phase = next,
                     !.sweeps = @ + 1,
                     !.made = @ \o childrenCreate(sharedContext, noHydrate, "holes")]
  /\ UNCHANGED <<sharedContext, noHydrate, planned, owned, prims, serialized, xtasks,
                 xCall, caught>>
  /\ UNCHANGED nonServer

NextRequests ==
  \/ BoundarySuspends
  \/ SwitchContext
  \/ BoundaryReRenders
  \/ BoundaryReExecutes

SpecRequests == InitServer /\ [][NextRequests]_vars

\* C36: what is created while a request's Loading boundary re-renders its
\* children or re-executes its holes after an await uses the HydrationContext
\* of that request, whichever request's render is current by then
C36_ReentryUsesOwnContext ==
  \A k \in DOMAIN reentry.made :
    reentry.made[k].during # "initial" => reentry.made[k].ctx = reentry.ctx

----------------------------------------------------------------------------
(* ctx._currentBoundaryId around the children of a Loading boundary *)

\* C37: whenever the children's code runs, in the initial attempt, in a
\* re-render or in a hole re-execution pass, ctx._currentBoundaryId is the
\* boundary's id, and when that synchronous work ends the marker has the
\* value it had before
C37_MarkerIsBoundaryId ==
  \A m \in markerLog : m.during = BoundaryId /\ m.after = m.before

----------------------------------------------------------------------------
(* The re-render loop `while (runPromise)` *)

\* a step of the IIFE that re-rendered the children
Rerendered == phase = "awaitRender" /\ attempt' = attempt + 1

\* C38: the re-render loop terminates once every promise has settled.  What
\* a re-render does is determined by the children and by which promises
\* have settled, so the loop ends exactly if a re-render made when every
\* promise has settled leaves `while (runPromise)`, for the holes or for
\* done; one that waits again is followed by the same re-render, without end
C38_RenderLoopTerminates ==
  [][(AllSettled /\ Rerendered) => phase' \in {"awaitHoles", "done"}]_vars

----------------------------------------------------------------------------
(* Memo retries and the hole pass that follows the same promise *)

\* the IIFE is about to continue after `await Promise.all(ret.p)` fulfilled
HolesResume == HeadIs("iife") /\ phase = "awaitHoles" /\ awaitResult.state = "ok"

\* the reaction was chained on a promise the boundary awaited
OnAwaited(t) == \E i \in 1..Len(ret.p) : ret.p[i] = [src |-> t.src, k |-> t.k]

\* C39: when a promise the boundary awaits has fulfilled, every memo retry
\* chained on it has run before the boundary re-executes its holes, so a
\* memo derived from an async memo is resolved when its dependency is
C39_RetriesBeforeHoles ==
  HolesResume =>
    /\ \A i \in 1..Len(microtasks) :
         (microtasks[i].type = "memoRetry" /\ dState[microtasks[i].k] = "fulfilled")
           => ~OnAwaited(microtasks[i])
    /\ \A i \in 1..NMemos :
         LET sp == prog.memos[i]
         IN (sp.kind = "derived" /\ sp.k = 0
               /\ memos[G(attempt, sp.dep)].error.tag = "none")
              => /\ memos[G(attempt, i)].error.tag = "none"
                 /\ memos[G(attempt, i)].value # "undef"

\* the hole reads a memo derived from a memo whose promise the boundary
\* awaited; the promise has fulfilled, the retry has run and both memos are
\* resolved when the holes are about to be re-executed
C39_Witness ==
  /\ HolesResume
  /\ attempt = 1
  /\ prog.memos[1].kind = "promise"
  /\ prog.memos[2] = MemoSpec("derived", 0, 1)
  /\ prog.holes = <<HoleSpec(<<2>>, FALSE)>>
  /\ ret.p = <<[src |-> "d", k |-> 1]>>
  /\ memos[1].error.tag = "none"
  /\ memos[2].error.tag = "none"
  /\ memos[2].value # "undef"

====
